---- MODULE Spec2Model ----
(***************************************************************************)
(* Model of the doc-builder markup preprocessors (kit/preprocessors):      *)
(* the tag matcher (generateTagRegex, generateTagRegexWithId, the older    *)
(* look-ahead patterns of kit/preprocess.js), replaceAsync, and the        *)
(* variant / options / docstring transforms built on them.                 *)
(*                                                                         *)
(* Texts are sequences of lexical tokens: an opening tag <t>, an opening   *)
(* tag with an id attribute <t id="x">, a closing tag </t>, or a run of    *)
(* plain text.  No plain-text token contains '<', so a pattern of the form *)
(* <t>...</t> matches on the token sequence exactly where it matches on    *)
(* the characters.  Emitted component markup is made of tokens of further  *)
(* types that never occur in an input.                                     *)
(***************************************************************************)
EXTENDS Integers, Sequences, FiniteSets, TLC

VARIABLES
    kind,            \* which preprocessor's markup() is running
    content,         \* the `content` argument of markup()
    pc,              \* position inside markup() / replaceAsync
    FRAMEWORKS,      \* isExist flags of the markup-scope FRAMEWORKS array
    values,          \* replaceAsync: the promises returned by the replacer
    arrival,         \* indices of `values` whose settlement has reached
                     \* Promise.all, in the order of arrival
    resolvedValues,  \* replaceAsync: the array Promise.all resolves to, less
                     \* what the second pass has shifted off it
    out,             \* the code returned by markup()
    tagText,         \* tag matcher: the text a pattern is applied to
    tagResult,       \* tag matcher: the matches the patterns produced
    hfDocBodyStart,  \* mdsvex: module-level flag, body-region start seen
    hfDocBodyEnd,    \* mdsvex: module-level flag, body-region end seen
    documents,       \* mdsvex: the documents still to be transformed
    nodes,           \* mdsvex: the nodes of the document being transformed,
                     \* in document order
    headings,        \* mdsvex: the outline forest built by the heading pass
    mdpc,            \* mdsvex: the pass treeVisitor's transform is in
    cursor,          \* mdsvex: nodes the current pass has been over
    outputs,         \* mdsvex: the transformed documents, oldest first
    harvest,         \* docstring: parameter-description harvesting
    fence,           \* mdsvex highlighter: one fenced code block
    math,            \* mdsvexPreprocess.markup(): one render with formulas
    wrapCodeBlocks,  \* mdsvex: module-level flag, wrap marker seen
    renders,         \* mdsvexPreprocess.markup(): the renders in flight
    selectedHfOptions, \* stores: the selected option of every hfoptions id
    page,            \* the HfOptions components of a page and its URL
    docstring        \* docstring: the optional fields of one block

\* the variables of the mdsvex tree transform
mdVars == <<hfDocBodyStart, hfDocBodyEnd, documents, nodes, headings, mdpc,
            cursor, outputs>>

\* the variables of the page render, of the HfOptions components and of the
\* optional docstring fields
pageVars == <<math, wrapCodeBlocks, renders, selectedHfOptions, page, docstring>>

\* the variables of replaceAsync and the tag matcher
pipeVars == <<kind, content, pc, FRAMEWORKS, values, arrival,
              resolvedValues, out, tagText, tagResult>>

vars == <<kind, content, pc, FRAMEWORKS, values, arrival,
          resolvedValues, out, tagText, tagResult,
          hfDocBodyStart, hfDocBodyEnd, documents, nodes, headings, mdpc,
          cursor, outputs, harvest, fence,
          math, wrapCodeBlocks, renders, selectedHfOptions, page, docstring>>

(***************************************************************************)
(* Bounds                                                                  *)
(***************************************************************************)
\* segments (plain text, stray tags, whole blocks) per document
MaxBlocks == 2
\* tokens per text handed to the tag matcher on its own
MaxLen == 5

(***************************************************************************)
(* Tokens                                                                  *)
(***************************************************************************)
Tok(type, name, arg) == [type |-> type, name |-> name, arg |-> arg]
Text(c) == Tok("text", c, "")
OpenTag(tag) == Tok("open", tag, "")
OpenIdTag(tag, id) == Tok("openid", tag, id)
CloseTag(tag) == Tok("close", tag, "")

RECURSIVE Concat(_)
\* the concatenation of a sequence of texts
Concat(ss) ==
    IF ss = <<>> THEN <<>> ELSE Head(ss) \o Concat(Tail(ss))

\* all sequences of at most n elements of S
SeqsUpTo(S, n) == UNION {[1..k -> S] : k \in 0..n}

(***************************************************************************)
(* Tag matcher                                                             *)
(***************************************************************************)
\* /<tag>(.*?)<\/tag>/ms, with g when global
generateTagRegex(tag, global) ==
    [tag |-> tag, style |-> "lazy", global |-> global]

\* /<tag\s+id=["'](.+?)["']\s*>(.*?)<\/tag>/ms, with g when global
generateTagRegexWithId(tag, global) ==
    [tag |-> tag, style |-> "lazyId", global |-> global]

\* /<tag>(((?!<tag>).)*)<\/tag>/ms of kit/preprocess.js, with g when global
LookaheadRegex(tag, global) ==
    [tag |-> tag, style |-> "lookahead", global |-> global]

REGEX_DOCSTRING == LookaheadRegex("docstring", TRUE)

NoMatch == [start |-> 0, end |-> 0, id |-> "", body |-> <<>>]

Min(S) == CHOOSE x \in S : \A y \in S : x <= y
Max(S) == CHOOSE x \in S : \A y \in S : y <= x

\* the token is the pattern's opening tag
IsOpening(re, tok) ==
    IF re.style = "lazyId"
    THEN tok.type = "openid" /\ tok.name = re.tag /\ tok.arg # ""
    ELSE tok = OpenTag(re.tag)

\* The closing tags at which the body group can end when the pattern is
\* tried at the opening tag i.  '.' with the s flag matches any character, so
\* (.*?) and (.+?) can run over any text; ((?!<tag>).)* cannot step onto the
\* start of an opening tag.
Reach(re, text, i) ==
    {j \in (i + 1)..Len(text) :
        /\ text[j] = CloseTag(re.tag)
        /\ re.style = "lookahead" =>
              \A o \in (i + 1)..(j - 1) : text[o] # OpenTag(re.tag)}

\* (.*?) is lazy, the first closing tag; (((?!<tag>).)*) is greedy, the last
PickClosing(re, reach) ==
    IF reach = {} THEN 0
    ELSE IF re.style = "lookahead" THEN Max(reach) ELSE Min(reach)

\* mutant of ClosingFor: an opening tag without a closing tag matches up to
\* the end of the text
ClosingForOrEnd(re, text, i) ==
    IF Reach(re, text, i) = {} THEN Len(text) + 1
    ELSE PickClosing(re, Reach(re, text, i))

\* the index of the closing tag a match from the opening tag i ends with;
\* 0 when the pattern does not match at i
ClosingFor(re, text, i) == PickClosing(re, Reach(re, text, i))

\* the opening tags from index `from` on at which the pattern matches
Starts(re, text, from) ==
    {i \in from..Len(text) :
        IsOpening(re, text[i]) /\ ClosingFor(re, text, i) # 0}

\* the match array: index, end, and the id and body capture groups
MatchSpan(text, i, j) ==
    [start |-> i, end |-> j, id |-> text[i].arg,
     body |-> SubSeq(text, i + 1, j - 1)]

MatchFrom(re, text, starts) ==
    IF starts = {} THEN NoMatch
    ELSE MatchSpan(text, Min(starts), ClosingFor(re, text, Min(starts)))

\* RegExp exec from index `from`: the leftmost match, or null (NoMatch)
Exec(re, text, from) == MatchFrom(re, text, Starts(re, text, from))

RECURSIVE ExecAll(_, _, _)
ExecAllStep(re, text, m) ==
    IF m.start = 0 THEN <<>>
    ELSE <<m>> \o ExecAll(re, text, m.end + 1)

\* the successive matches of a global pattern, left to right
ExecAll(re, text, from) == ExecAllStep(re, text, Exec(re, text, from))

FirstOnly(m) == IF m.start = 0 THEN <<>> ELSE <<m>>

\* every match a String.prototype.replace pass over text visits
Matches(re, text) ==
    IF re.global THEN ExecAll(re, text, 1)
    ELSE FirstOnly(Exec(re, text, 1))

\* str.match(re) for a non-global pattern: null (NoMatch) or the first match
StrMatch(text, re) == Exec(re, text, 1)

(***************************************************************************)
(* String.prototype.replace with a function replacer                       *)
(***************************************************************************)
\* resolvedValues.shift(): the first element, undefined on an empty array
\* (String.prototype.replace then inserts the text "undefined")
Shift(queue) ==
    IF queue = <<>> THEN <<Text("undefined")>> ELSE Head(queue)

\* mutant of Shifted: shift() leaves the array as it is
ShiftedNothing(queue) == queue

\* the array after resolvedValues.shift()
Shifted(queue) == IF queue = <<>> THEN <<>> ELSE Tail(queue)

RECURSIVE ReplaceFrom(_, _, _, _)
\* mutant of ReplaceStep: the text between two matches is lost
ReplaceStepDroppingGaps(text, re, from, queue, m) ==
    IF m.start = 0
    THEN SubSeq(text, from, Len(text))
    ELSE (IF from = 1 THEN SubSeq(text, from, m.start - 1) ELSE <<>>)
             \o Shift(queue)
             \o ReplaceFrom(text, re, m.end + 1, Shifted(queue))

\* one step of the replace pass, m being the next match from `from`: the
\* text before the match, the replacer's return value, then the rest
ReplaceStep(text, re, from, queue, m) ==
    IF m.start = 0
    THEN SubSeq(text, from, Len(text))
    ELSE SubSeq(text, from, m.start - 1) \o Shift(queue)
             \o ReplaceFrom(text, re, m.end + 1, Shifted(queue))

\* text from index `from` on, each match replaced by the next element
\* shifted off `queue` (the replacer of replaceAsync's second pass)
ReplaceFrom(text, re, from, queue) ==
    ReplaceStep(text, re, from, queue, Exec(re, text, from))

\* String.prototype.replace.call(string, searchValue, () => queue.shift())
JsReplace(text, re, queue) == ReplaceFrom(text, re, 1, queue)

RECURSIVE QueueAfter(_, _, _, _)
QueueAfterStep(text, re, queue, m) ==
    IF m.start = 0 THEN queue
    ELSE QueueAfter(text, re, m.end + 1, Shifted(queue))

\* what the replace pass from index `from` on leaves in `queue`: one
\* element is shifted off per match
QueueAfter(text, re, from, queue) ==
    QueueAfterStep(text, re, queue, Exec(re, text, from))

(***************************************************************************)
(* Emitted component markup                                                *)
(***************************************************************************)
ComponentOpen(name) == Tok("component", name, "<")
TagEnd(name) == Tok("component", name, ">")
SelfClose(name) == Tok("component", name, "/>")
ComponentClose(name) == Tok("component", name, "</")
Flag(framework, isExist) ==
    Tok("flag", framework, IF isExist THEN "true" ELSE "false")
SlotOpen(framework) == Tok("slot", framework, "<")
SlotClose(framework) == Tok("slot", framework, "</")
PropOpen(name) == Tok("prop", name, "={")
PropClose(name) == Tok("prop", name, "}")
Newlines == Text("\n\n")

(***************************************************************************)
(* Variant transforms: frameworkcontent, inferencesnippet,                 *)
(* tokenizerslangcontent                                                   *)
(***************************************************************************)
VariantKinds == {"frameworkcontent", "inferencesnippet", "tokenizerslangcontent"}

\* the FRAMEWORKS array of each preprocessor: framework name and tag, in the
\* declared order
FrameworkList(k) ==
    CASE k = "frameworkcontent" ->
           <<[framework |-> "pytorch", tag |-> "pt"],
             [framework |-> "tensorflow", tag |-> "tf"],
             [framework |-> "jax", tag |-> "jax"]>>
      [] k = "inferencesnippet" ->
           <<[framework |-> "python", tag |-> "python"],
             [framework |-> "js", tag |-> "js"],
             [framework |-> "curl", tag |-> "curl"]>>
      [] k = "tokenizerslangcontent" ->
           <<[framework |-> "python", tag |-> "python"],
             [framework |-> "rust", tag |-> "rust"],
             [framework |-> "node", tag |-> "node"]>>
      [] OTHER -> <<>>

ComponentName(k) ==
    CASE k = "frameworkcontent" -> "FrameworkContent"
      [] k = "inferencesnippet" -> "InferenceApi"
      [] k = "tokenizerslangcontent" -> "TokenizersLanguageContent"
      [] k = "hfoptions" -> "HfOptions"
      [] OTHER -> "Docstring"

\* isExist: false of every entry of a newly built FRAMEWORKS array
NewFrameworks(k) == [i \in 1..Len(FrameworkList(k)) |-> FALSE]

\* the svelte:fragment appended to svelteSlots for one framework
SlotFor(framework, fwContent) ==
    <<SlotOpen(framework), Tok("Markdown", "", "<")>> \o fwContent
        \o <<Tok("Markdown", "", "</"), SlotClose(framework)>>

\* the body of the loop for entry i, m being fwcontentBody.match(REGEX_FW)
FrameworkStep(list, i, m, acc) ==
    IF m.start # 0
    THEN [isExist |-> [acc.isExist EXCEPT ![i] = TRUE],
          svelteSlots |-> acc.svelteSlots \o SlotFor(list[i].framework, m.body)]
    ELSE acc

\* where the tag first opens in the body (past the end when it does not)
FirstOpen(fwcontentBody, tag) ==
    Min({p \in 1..Len(fwcontentBody) : fwcontentBody[p] = OpenTag(tag)}
            \cup {Len(fwcontentBody) + 1})

\* the entries of FRAMEWORKS ordered by where their tag first opens in the
\* body (entries whose tag does not open come last, in declared order)
SourceOrder(list, fwcontentBody) ==
    CHOOSE p \in [1..Len(list) -> 1..Len(list)] :
        \A a, b \in 1..Len(list) : a < b =>
            FirstOpen(fwcontentBody, list[p[a]].tag) * (Len(list) + 1) + p[a]
              < FirstOpen(fwcontentBody, list[p[b]].tag) * (Len(list) + 1) + p[b]

RECURSIVE FrameworksLoopSourceOrder(_, _, _, _)
\* mutant of FrameworksLoop: the entries are visited in source order
FrameworksLoopSourceOrder(list, fwcontentBody, i, acc) ==
    IF i > Len(list) THEN acc
    ELSE FrameworksLoopSourceOrder(list, fwcontentBody, i + 1,
            FrameworkStep(list, SourceOrder(list, fwcontentBody)[i],
                StrMatch(fwcontentBody,
                    generateTagRegex(
                        list[SourceOrder(list, fwcontentBody)[i]].tag, FALSE)),
                acc))

RECURSIVE FrameworksLoop(_, _, _, _)
\* for (const [i, value] of Object.entries(FRAMEWORKS)) { ... }, from entry i
FrameworksLoop(list, fwcontentBody, i, acc) ==
    IF i > Len(list) THEN acc
    ELSE FrameworksLoop(list, fwcontentBody, i + 1,
            FrameworkStep(list, i,
                StrMatch(fwcontentBody, generateTagRegex(list[i].tag, FALSE)),
                acc))

\* FRAMEWORKS.map((fw) => `${fw.framework}={${fw.isExist}}`)
SvelteProps(list, isExist) ==
    [i \in 1..Len(list) |-> Flag(list[i].framework, isExist[i])]

\* the string the replacer returns, r being the state after the loop
VariantComponent(k, r) ==
    (IF k = "frameworkcontent" THEN <<Newlines>> ELSE <<>>)
        \o <<ComponentOpen(ComponentName(k))>>
        \o SvelteProps(FrameworkList(k), r.isExist)
        \o <<TagEnd(ComponentName(k))>> \o r.svelteSlots
        \o <<ComponentClose(ComponentName(k))>>
        \o (IF k = "frameworkcontent" THEN <<Newlines>> ELSE <<>>)

VariantResult(k, r) ==
    [value |-> VariantComponent(k, r), isExist |-> r.isExist]

\* the replacer of a variant preprocessor, run on one block body with the
\* FRAMEWORKS array in state isExist: the string it returns and the array's
\* state afterwards
VariantCallback(k, fwcontentBody, isExist) ==
    VariantResult(k,
        FrameworksLoop(FrameworkList(k), fwcontentBody, 1,
            [isExist |-> isExist, svelteSlots |-> <<>>]))

(***************************************************************************)
(* Options transform: hfoptions / hfoption                                 *)
(***************************************************************************)
REGEX_HF_OPTIONS == generateTagRegexWithId("hfoptions", TRUE)
REGEX_HF_OPTION == generateTagRegexWithId("hfoption", TRUE)

\* `<HfOption id="${id}" option="${option}">\n\n${hfOptionContent}\n\n</HfOption>`
HfOption(id, option, hfOptionContent) ==
    <<Tok("HfOption", id, option), Newlines>> \o hfOptionContent
        \o <<Newlines, ComponentClose("HfOption")>>

RECURSIVE HfOptionPass(_, _, _)
\* First pass of the nested replaceAsync over the hfoption matches ms: the
\* replacer runs to its end on each match in turn (it awaits nothing), pushes
\* the option onto `options` and returns the HfOption markup.
HfOptionPass(id, ms, acc) ==
    IF ms = <<>> THEN acc
    ELSE HfOptionPass(id, Tail(ms),
            [options |-> Append(acc.options, Head(ms).id),
             values |-> Append(acc.values,
                               HfOption(id, Head(ms).id, Head(ms).body))])

\* options={JSON.stringify(options)}
OptionsJson(options) ==
    <<PropOpen("options")>>
        \o [k \in 1..Len(options) |-> Tok("json", options[k], "")]
        \o <<PropClose("options")>>

\* mutant of HfOptionsContainer: the options are serialized as they are
\* before the nested replaceAsync has run
HfOptionsContainerEarly(id, hfOptionsContent, pass) ==
    <<ComponentOpen("HfOptions"), Tok("prop", "id", id)>>
        \o OptionsJson(<<>>) \o <<TagEnd("HfOptions")>>
        \o ReplaceFrom(hfOptionsContent, REGEX_HF_OPTION, 1, pass.values)
        \o <<ComponentClose("HfOptions")>>

\* The rest of the replacer once the nested first pass has run: the nested
\* replaceAsync is awaited (its promises are fulfilled already, so its second
\* pass splices pass.values in match order), then the container is built.
HfOptionsContainer(id, hfOptionsContent, pass) ==
    <<ComponentOpen("HfOptions"), Tok("prop", "id", id)>>
        \o OptionsJson(pass.options) \o <<TagEnd("HfOptions")>>
        \o ReplaceFrom(hfOptionsContent, REGEX_HF_OPTION, 1, pass.values)
        \o <<ComponentClose("HfOptions")>>

\* the replacer of hfOptionsPreprocess for one hfoptions block
HfOptionsCallback(id, hfOptionsContent) ==
    HfOptionsContainer(id, hfOptionsContent,
        HfOptionPass(id, Matches(REGEX_HF_OPTION, hfOptionsContent),
                     [options |-> <<>>, values |-> <<>>]))

(***************************************************************************)
(* Docstring transform: the mandatory fields                               *)
(***************************************************************************)
\* code.replace(/&amp;lcub;/g, "{").replace(/&amp;lt;/g, "<")
\*     .replace(/&amp;num;/g, "#")
renderSvelteChars(code) ==
    [i \in 1..Len(code) |->
        CASE code[i] = Text("&amp;lcub;") -> Text("{")
          [] code[i] = Text("&amp;lt;") -> Text("<")
          [] code[i] = Text("&amp;num;") -> Text("#")
          [] OTHER -> code[i]]

\* content.replace(/\\_/g, "_")
unescapeUnderscores(c) ==
    [i \in 1..Len(c) |-> IF c[i] = Text("\\_") THEN Text("_") ELSE c[i]]

\* JSON.stringify of a string: quoted, with quotes and backslashes escaped
JsonStringify(c) ==
    <<Text("\"")>>
        \o [i \in 1..Len(c) |->
               CASE c[i] = Text("\"") -> Text("\\\"")
                 [] c[i] = Text("\\_") -> Text("\\\\_")
                 [] OTHER -> c[i]]
        \o <<Text("\"")>>

Fulfilled(v) == [outcome |-> "ok", value |-> v]
Thrown == [outcome |-> "throw", value |-> <<>>]

\* the Docstring component built from the three mandatory fields
DocstringComponent(name, anchor, signature) ==
    <<ComponentOpen("Docstring"), PropOpen("name")>>
        \o JsonStringify(unescapeUnderscores(name))
        \o <<PropClose("name"), PropOpen("anchor")>> \o JsonStringify(anchor)
        \o <<PropClose("anchor"), PropOpen("parameters")>> \o signature
        \o <<PropClose("parameters"), SelfClose("Docstring"), Text("\n")>>

\* mutant of DocstringFields: a missing field degrades to an empty one
DocstringFieldsLenient(name, anchor, signature) ==
    Fulfilled(DocstringComponent(name.body, anchor.body, signature.body))

\* docstringBody.match(REGEX)[1] for name, anchor and parameters: a null
\* match throws a TypeError, which rejects the replacer's promise
DocstringFields(name, anchor, signature) ==
    IF name.start = 0 \/ anchor.start = 0 \/ signature.start = 0
    THEN Thrown
    ELSE Fulfilled(DocstringComponent(name.body, anchor.body, signature.body))

\* the replacer of docstringPreprocess for one docstring block whose body
\* holds none of the optional sub-tags
DocstringCallback(docstringBody) ==
    DocstringFields(
        StrMatch(renderSvelteChars(docstringBody), generateTagRegex("name", FALSE)),
        StrMatch(renderSvelteChars(docstringBody), generateTagRegex("anchor", FALSE)),
        StrMatch(renderSvelteChars(docstringBody),
                 generateTagRegex("parameters", FALSE)))

(***************************************************************************)
(* markup(): replaceAsync over the container tag                           *)
(***************************************************************************)
Kinds == VariantKinds \cup {"hfoptions", "docstring"}

\* the global pattern markup() hands to replaceAsync
ContainerRegex(k) ==
    IF k = "hfoptions" THEN REGEX_HF_OPTIONS ELSE generateTagRegex(k, TRUE)

\* mutant of SharedFrameworks: every variant preprocessor builds FRAMEWORKS
\* in markup scope
SharedFrameworksAll(k) == k \in VariantKinds

\* FRAMEWORKS is built once in markup scope (inferencesnippet,
\* tokenizerslangcontent), not inside the replacer (frameworkcontent)
SharedFrameworks(k) == k \in {"inferencesnippet", "tokenizerslangcontent"}

VariantPromise(k, fw, r) ==
    [promise |-> Fulfilled(r.value),
     fw |-> IF SharedFrameworks(k) THEN r.isExist ELSE fw]

\* one call of the replacer: the promise it returns and FRAMEWORKS afterwards
Replacer(k, m, fw) ==
    CASE k \in VariantKinds ->
           VariantPromise(k, fw,
               VariantCallback(k, m.body,
                   IF SharedFrameworks(k) THEN fw ELSE NewFrameworks(k)))
      [] k = "hfoptions" ->
           [promise |-> Fulfilled(HfOptionsCallback(m.id, m.body)), fw |-> fw]
      [] OTHER ->
           [promise |-> DocstringCallback(m.body), fw |-> fw]

\* values.push(replacer.apply(undefined, arguments))
Pushed(acc, r) == [values |-> Append(acc.values, r.promise), fw |-> r.fw]

RECURSIVE CollectPass(_, _, _)
\* replaceAsync's first replace pass over the matches ms, from acc = the
\* values pushed and the state of FRAMEWORKS so far
CollectPass(k, ms, acc) ==
    IF ms = <<>> THEN acc
    ELSE CollectPass(k, Tail(ms), Pushed(acc, Replacer(k, Head(ms), acc.fw)))

\* mutant of PromiseAllStore: values are kept in the order of arrival
PromiseAllStoreArrival(rv, i, v, nArrived) == [rv EXCEPT ![nArrived + 1] = v]

\* Promise.all keeps the value of the i-th promise at index i
PromiseAllStore(rv, i, v, nArrived) == [rv EXCEPT ![i] = v]

(***************************************************************************)
(* Documents                                                               *)
(***************************************************************************)
Pair(tag, c) == <<OpenTag(tag), Text(c), CloseTag(tag)>>
Option(o, c) == <<OpenIdTag("hfoption", o), Text(c), CloseTag("hfoption")>>
Block(open, body, tag) == <<open>> \o body \o <<CloseTag(tag)>>

\* block bodies built from the three variant tags t: no variant, single
\* variants, variants out of the declared order, an unclosed variant tag, a
\* variant given twice
VariantBodiesOf(t) ==
    {<<>>, Pair(t[1], "x"), Pair(t[2], "y"), Pair(t[3], "z"),
     Pair(t[2], "y") \o Pair(t[1], "x"),
     Pair(t[3], "z") \o Pair(t[2], "y") \o Pair(t[1], "x"),
     <<OpenTag(t[1]), Text("x")>>,
     Pair(t[1], "x") \o Pair(t[1], "w")}

VariantBodies(k) ==
    VariantBodiesOf([i \in 1..Len(FrameworkList(k)) |-> FrameworkList(k)[i].tag])

HfOptionBodies ==
    {<<>>, Option("a", "x"), Option("a", "x") \o Option("b", "y"),
     Option("b", "y") \o <<Text("w")>> \o Option("a", "x"),
     Option("a", "x") \o Option("a", "y"),
     <<OpenIdTag("hfoption", "a"), Text("x")>>}

DocstringBodies ==
    {Pair("name", "f") \o Pair("anchor", "m.f") \o Pair("parameters", "[]"),
     Pair("parameters", "[]") \o Pair("anchor", "m.f") \o Pair("name", "g"),
     Pair("anchor", "m.f") \o Pair("parameters", "[]"),
     Pair("name", "f") \o Pair("parameters", "[]"),
     Pair("name", "f") \o Pair("anchor", "m.f"),
     <<OpenTag("name"), Text("f")>> \o Pair("anchor", "m.f")
         \o Pair("parameters", "[]"),
     <<OpenTag("name"), Text("\\_"), Text("f"), CloseTag("name")>>
         \o Pair("anchor", "m.f") \o Pair("parameters", "[]"),
     Pair("name", "f") \o Pair("anchor", "m.f")
         \o Pair("parameters", "&amp;lt;")}

\* the whole blocks of a document of kind k
Blocks(k) ==
    CASE k \in VariantKinds ->
           {Block(OpenTag(k), b, k) : b \in VariantBodies(k)}
      [] k = "hfoptions" ->
           {Block(OpenIdTag(k, "g1"), b, k) : b \in HfOptionBodies}
               \cup {Block(OpenIdTag(k, "g2"), Option("a", "x"), k)}
      [] OTHER ->
           {Block(OpenTag(k), b, k) : b \in DocstringBodies}

\* a stray opening tag of the container (with an id where the pattern asks
\* for one)
StrayOpen(k) == IF k = "hfoptions" THEN OpenIdTag(k, "g1") ELSE OpenTag(k)

\* the segments a document is made of: plain text, a pair of tags no
\* preprocessor knows, a stray container tag, a whole block, a whole block
\* followed by plain text
Segments(k) ==
    {<<Text("a")>>, Pair("unknown", "u"), <<StrayOpen(k)>>, <<CloseTag(k)>>}
        \cup Blocks(k)
        \cup {b \o <<Text("a")>> : b \in Blocks(k)}

\* the documents: at most MaxBlocks segments
Docs(k) == {Concat(ss) : ss \in SeqsUpTo(Segments(k), MaxBlocks)}

(***************************************************************************)
(* The state machine of one markup() call                                  *)
(***************************************************************************)
TagIdle ==
    /\ tagText = <<>>
    /\ tagResult = [applied |-> FALSE, generated |-> <<>>, legacy |-> <<>>]

\* no document is handed to the mdsvex transform
MdIdle ==
    /\ hfDocBodyStart = FALSE
    /\ hfDocBodyEnd = FALSE
    /\ documents = <<>>
    /\ nodes = <<>>
    /\ headings = <<>>
    /\ mdpc = "idle"
    /\ cursor = 0
    /\ outputs = <<>>

\* no parameter description is harvested
HarvestIdle ==
    harvest = [applied |-> FALSE, anchor |-> <<>>, dom |-> <<>>,
               result |-> <<>>]

\* no fenced code block is highlighted
FenceIdle ==
    fence = [applied |-> FALSE, code |-> <<>>, wrapCodeBlocks |-> FALSE,
             result |-> <<>>]

\* no document with formulas is rendered
MathIdle == math = <<>>

\* no render is in flight
RendersIdle == wrapCodeBlocks = FALSE /\ renders = <<>>

\* no HfOptions component exists
OptionsIdle == selectedHfOptions = <<>> /\ page = <<>>

\* no optional docstring field is read
FieldsIdle == docstring = <<>>

PageIdle == MathIdle /\ RendersIdle /\ OptionsIdle /\ FieldsIdle

Init ==
    /\ kind \in Kinds
    /\ content \in Docs(kind)
    /\ pc = "start"
    /\ FRAMEWORKS = IF SharedFrameworks(kind) THEN NewFrameworks(kind) ELSE <<>>
    /\ values = <<>>
    /\ arrival = <<>>
    /\ resolvedValues = <<>>
    /\ out = <<>>
    /\ TagIdle
    /\ MdIdle
    /\ HarvestIdle
    /\ FenceIdle
    /\ PageIdle

\* the state in which replaceAsync reaches await Promise.all(values), r
\* being the outcome of the first pass
StartAwait(r) ==
    /\ values' = r.values
    /\ FRAMEWORKS' = r.fw
    /\ resolvedValues' = [i \in 1..Len(r.values) |-> <<>>]
    /\ pc' = IF r.values = <<>> THEN "splice" ELSE "await"

\* replaceAsync, first replace pass: the replacer is called on every match,
\* left to right, and the promises it returns are collected
Collect ==
    /\ pc = "start"
    /\ StartAwait(CollectPass(kind, Matches(ContainerRegex(kind), content),
                              [values |-> <<>>, fw |-> FRAMEWORKS]))
    /\ UNCHANGED <<kind, content, arrival, out, tagText, tagResult>>
    /\ UNCHANGED <<mdVars, harvest, fence, pageVars>>

\* await Promise.all(values): the settlement of promise i arrives.  A
\* rejection rejects Promise.all, replaceAsync and markup() at once; the
\* last fulfilment resolves Promise.all.
Deliver(i) ==
    /\ pc = "await"
    /\ i \in 1..Len(values)
    /\ \A k \in 1..Len(arrival) : arrival[k] # i
    /\ arrival' = Append(arrival, i)
    /\ IF values[i].outcome = "throw"
       THEN /\ pc' = "rejected"
            /\ UNCHANGED resolvedValues
       ELSE /\ resolvedValues' =
                 PromiseAllStore(resolvedValues, i, values[i].value, Len(arrival))
            /\ pc' = IF Len(arrival) + 1 = Len(values) THEN "splice" ELSE "await"
    /\ UNCHANGED <<kind, content, FRAMEWORKS, values, out, tagText, tagResult>>
    /\ UNCHANGED <<mdVars, harvest, fence, pageVars>>

\* replaceAsync, second replace pass, and markup()'s return { code: content }
Splice ==
    /\ pc = "splice"
    /\ out' = JsReplace(content, ContainerRegex(kind), resolvedValues)
    /\ resolvedValues' = QueueAfter(content, ContainerRegex(kind), 1, resolvedValues)
    /\ pc' = "done"
    /\ UNCHANGED <<kind, content, FRAMEWORKS, values, arrival, tagText, tagResult>>
    /\ UNCHANGED <<mdVars, harvest, fence, pageVars>>

Next ==
    \/ Collect
    \/ \E i \in 1..Len(values) : Deliver(i)
    \/ Splice

Spec == Init /\ [][Next]_vars

(***************************************************************************)
(* Tag matcher on its own: the patterns applied to arbitrary texts         *)
(***************************************************************************)
TagAlphabet ==
    {OpenTag("docstring"), CloseTag("docstring"), Text("A"), Text("B")}

Idle ==
    /\ kind = "none"
    /\ content = <<>>
    /\ pc = "idle"
    /\ FRAMEWORKS = <<>>
    /\ values = <<>>
    /\ arrival = <<>>
    /\ resolvedValues = <<>>
    /\ out = <<>>

InitTag ==
    /\ Idle
    /\ MdIdle
    /\ HarvestIdle
    /\ FenceIdle
    /\ PageIdle
    /\ tagText \in SeqsUpTo(TagAlphabet, MaxLen)
    /\ tagResult = [applied |-> FALSE, generated |-> <<>>, legacy |-> <<>>]

\* apply generateTagRegex("docstring", true) and REGEX_DOCSTRING to the text
ApplyPatterns ==
    /\ ~tagResult.applied
    /\ tagResult' =
          [applied |-> TRUE,
           generated |-> Matches(generateTagRegex("docstring", TRUE), tagText),
           legacy |-> Matches(REGEX_DOCSTRING, tagText)]
    /\ UNCHANGED <<kind, content, pc, FRAMEWORKS, values, arrival,
                   resolvedValues, out, tagText>>
    /\ UNCHANGED <<mdVars, harvest, fence, pageVars>>

NextTag == ApplyPatterns

SpecTag == InitTag /\ [][NextTag]_vars

(***************************************************************************)
(* Docstring transform: harvesting the parameter descriptions              *)
(*                                                                         *)
(* The rendered parameter-description block is taken as the document that  *)
(* htmlparser2 parses it into: a sequence of elements, each with a tag     *)
(* name and child nodes.  The inner HTML of a child node is a sequence of  *)
(* tags and runs of text.                                                  *)
(***************************************************************************)
\* list items per list
MaxItems == 2
\* top-level elements per rendered parameter-description block
MaxElements == 2

HtmlTagTokens ==
    {"<p>", "</p>", "<strong>", "</strong>", "<code>", "</code>"}

Whitespace == {" ", "\n"}

\* the index of the first element of s, from position i on, that satisfies
\* in = (s[i] \in S); Len(s) + 1 when there is none
RECURSIVE IndexFrom(_, _, _, _)
IndexFrom(s, S, in, i) ==
    IF i > Len(s) \/ (s[i] \in S) = in THEN i ELSE IndexFrom(s, S, in, i + 1)

\* the index of the last element of s, up to position i, that is not in S;
\* 0 when there is none
RECURSIVE LastNotIn(_, _, _)
LastNotIn(s, S, i) ==
    IF i = 0 \/ s[i] \notin S THEN i ELSE LastNotIn(s, S, i - 1)

\* String.prototype.trim
Trim(s) ==
    SubSeq(s, IndexFrom(s, Whitespace, FALSE, 1), LastNotIn(s, Whitespace, Len(s)))

\* domUtils.innerText(domUtils.getElementsByTagName("strong", childEl)[0]):
\* the text inside the first <strong> element of the child
StrongText(html) ==
    SelectSeq(SubSeq(html,
                     IndexFrom(html, {"<strong>"}, TRUE, 1) + 1,
                     IndexFrom(html, {"</strong>"}, TRUE,
                               IndexFrom(html, {"<strong>"}, TRUE, 1)) - 1),
              LAMBDA t : t \notin HtmlTagTokens)

\* mutant of StripParagraph: the paragraph tags are kept
StripParagraphKept(description) == description

\* if (description.startsWith("<p>")) ...; if (description.endsWith("</p>")) ...
StripParagraph(description) ==
    SubSeq(description,
           IF description # <<>> /\ Head(description) = "<p>" THEN 2 ELSE 1,
           IF description # <<>> /\ description[Len(description)] = "</p>"
           THEN Len(description) - 1 ELSE Len(description))

\* the record pushed for one child element of the list
ParamRecord(anchor, childEl) ==
    [anchor |-> anchor \o <<".">> \o StrongText(childEl.html),
     description |-> StripParagraph(Trim(childEl.html)),
     name |-> StrongText(childEl.html)]

\* list.childNodes.filter(({ type }) => type === "tag"), one record each
ParamRecords(anchor, list) ==
    [i \in 1..Len(SelectSeq(list.children, LAMBDA c : c.type = "tag")) |->
        ParamRecord(anchor, SelectSeq(list.children, LAMBDA c : c.type = "tag")[i])]

\* domUtils.getElementsByTagName("ul", dom)
Lists(dom) == SelectSeq(dom, LAMBDA el : el.name = "ul")

\* mutant of ParametersDescription: no list gives an empty array
ParametersDescriptionAlways(anchor, dom) ==
    [present |-> TRUE,
     value |-> IF Lists(dom) = <<>> THEN <<>>
               ELSE ParamRecords(anchor, Lists(dom)[1])]

\* the parametersDescription property added to the Docstring component:
\* present only if (lists.length), built from lists[0]
ParametersDescription(anchor, dom) ==
    IF Lists(dom) # <<>>
    THEN [present |-> TRUE, value |-> ParamRecords(anchor, Lists(dom)[1])]
    ELSE [present |-> FALSE, value |-> <<>>]

\* the rendering of the item  - **x** (`int`) -- desc
\* rendered list items: a tight item, a loose item (one paragraph), a loose
\* item of two paragraphs, and an item whose text ends in a raw paragraph
ExampleItem ==
    <<"<strong>", "x", "</strong>", " (", "<code>", "int", "</code>",
      ") -- ", "desc">>

ItemHtmls ==
    { ExampleItem,
      <<"\n", "<p>", "<strong>", "y", "</strong>", " -- ", "d", "</p>", "\n">>,
      <<"<p>", "<strong>", "z", "</strong>", "</p>", "\n", "<p>", "more", "</p>">>,
      <<"<strong>", "w", "</strong>", " -- ", "<p>", "d", "</p>">> }

TextNode(html) == [type |-> "text", html |-> html]
TagNode(html) == [type |-> "tag", html |-> html]

\* <ul> or <ol> with the given items, and the line breaks around them
RECURSIVE ListChildren(_)
ListChildren(items) ==
    IF items = <<>> THEN <<TextNode(<<"\n">>)>>
    ELSE <<TextNode(<<"\n">>), TagNode(Head(items))>> \o ListChildren(Tail(items))

Element(name, items) == [name |-> name, children |-> ListChildren(items)]

Elements ==
    {[name |-> "p", children |-> <<TextNode(<<"text">>)>>]}
        \cup {Element("ol", <<ExampleItem>>)}
        \cup {Element("ul", items) : items \in SeqsUpTo(ItemHtmls, MaxItems)}

Anchors == {<<"pkg.foo">>, <<"a">>}

InitParams ==
    /\ Idle
    /\ TagIdle
    /\ MdIdle
    /\ FenceIdle
    /\ PageIdle
    /\ harvest \in [applied : {FALSE}, anchor : Anchors,
                    dom : SeqsUpTo(Elements, MaxElements), result : {<<>>}]

\* the paramsdesc part of the docstring replacer, from the parsed document on
HarvestParams ==
    /\ ~harvest.applied
    /\ harvest' = [harvest EXCEPT !.applied = TRUE,
                     !.result = ParametersDescription(harvest.anchor, harvest.dom)]
    /\ UNCHANGED <<pipeVars, mdVars, fence, pageVars>>

NextParams == HarvestParams

SpecParams == InitParams /\ [][NextParams]_vars

(***************************************************************************)
(* mdsvex tree visitor: nodes, heading slugs and the outline forest        *)
(*                                                                         *)
(* A document is the sequence of its heading, text and html nodes in       *)
(* document order (the order in which unist-util-visit reaches them).  A   *)
(* node value is a sequence of characters; a tag name, an attribute run    *)
(* or a sentinel is one element of it.                                     *)
(***************************************************************************)
\* headings per document
MaxHeadings == 4
\* characters per heading title
MaxTitle == 6

MdNode(type, depth, value) == [type |-> type, depth |-> depth, value |-> value]
MdHeading(depth, title) == MdNode("heading", depth, title)
MdText(value) == MdNode("text", 0, value)
MdHtml(value) == MdNode("html", 0, value)

\* String.prototype.replaceAll(c, rep) on a sequence of characters
RECURSIVE ReplaceAll(_, _, _)
ReplaceAll(s, c, rep) ==
    IF s = <<>> THEN <<>>
    ELSE (IF Head(s) = c THEN rep ELSE <<Head(s)>>) \o ReplaceAll(Tail(s), c, rep)

\* "&#123;" and "&#60;"
EntityBrace == <<"&", "#", "1", "2", "3", ";">>
EntityLt == <<"&", "#", "6", "0", ";">>

UpperCase == {"A", "M", "S"}
LowerCase ==
    {"a", "m", "s", "y", "e", "c", "t", "i", "o", "n", "u", "d", "h"}
Digits == {"0", "1", "2", "3", "4", "5", "6", "7", "8", "9"}

\* String.prototype.toLowerCase
toLowerCase(s) ==
    [i \in 1..Len(s) |->
        CASE s[i] = "A" -> "a"
          [] s[i] = "M" -> "m"
          [] s[i] = "S" -> "s"
          [] OTHER -> s[i]]

\* mutant of HyphenateSpaces: every white-space character gives a hyphen
RECURSIVE HyphenateEachSpace(_)
HyphenateEachSpace(s) ==
    IF s = <<>> THEN <<>>
    ELSE <<IF Head(s) \in Whitespace THEN "-" ELSE Head(s)>>
             \o HyphenateEachSpace(Tail(s))

\* .replace(/\s+/g, "-"): every run of white space gives one hyphen
RECURSIVE HyphenateSpaces(_)
HyphenateSpaces(s) ==
    IF s = <<>> THEN <<>>
    ELSE IF Head(s) \in Whitespace
         THEN <<"-">> \o HyphenateSpaces(
                            SubSeq(s, IndexFrom(s, Whitespace, FALSE, 1), Len(s)))
         ELSE <<Head(s)>> \o HyphenateSpaces(Tail(s))

\* .replace(/[^\p{L}\p{N}-]+/gu, "")
KeepSlugChars(s) ==
    SelectSeq(s, LAMBDA c : c \in UpperCase \cup LowerCase \cup Digits \cup {"-"})

\* title.trim().toLowerCase().replace(/\s+/g, "-").replace(/[^\p{L}\p{N}-]+/gu, "")
Slugify(title) == KeepSlugChars(HyphenateSpaces(toLowerCase(Trim(title))))

\* the start of the leftmost match of /\[\s(.*?)\s\]$/ in title from
\* position p on; 0 when there is none
RECURSIVE SlugSuffixFrom(_, _)
SlugSuffixFrom(title, p) ==
    IF p + 3 > Len(title) THEN 0
    ELSE IF /\ title[p] = "["
            /\ title[p + 1] \in Whitespace
            /\ title[Len(title) - 1] \in Whitespace
            /\ title[Len(title)] = "]"
            /\ \A i \in p + 2..Len(title) - 2 : title[i] # "\n"
         THEN p
         ELSE SlugSuffixFrom(title, p + 1)

\* the heading visitor from the match on: match && match[1] gives the
\* explicit slug and the title less match[0]; anything else the derived slug
TitleAndLocalAt(title, p) ==
    IF p > 0 /\ p + 2 <= Len(title) - 2
    THEN [title |-> Trim(SubSeq(title, 1, p - 1)),
          local |-> SubSeq(title, p + 2, Len(title) - 2)]
    ELSE [title |-> title, local |-> Slugify(title)]

\* getTitleText of a heading whose only child is a text node, and the
\* title / local the visitor derives from it
TitleAndLocal(value) == TitleAndLocalAt(Trim(value), SlugSuffixFrom(Trim(value), 1))

OutlineNode(title, local, depth) ==
    [title |-> title, local |-> local, sections |-> <<>>, depth |-> depth]

\* mutant of addToTree: a heading of the same depth nests under the last one
RECURSIVE addToTreeStrict(_, _)
addToTreeStrict(tree, node) ==
    IF tree = <<>> \/ tree[Len(tree)].depth > node.depth
    THEN Append(tree, node)
    ELSE [tree EXCEPT ![Len(tree)].sections = addToTreeStrict(@, node)]

\* mutant of addToTree: the first node of a sibling list is looked at
RECURSIVE addToTreeFirst(_, _)
addToTreeFirst(tree, node) ==
    IF tree = <<>> \/ tree[1].depth >= node.depth
    THEN Append(tree, node)
    ELSE [tree EXCEPT ![1].sections = addToTreeFirst(@, node)]

RECURSIVE addToTree(_, _)
addToTree(tree, node) ==
    IF tree = <<>> \/ tree[Len(tree)].depth >= node.depth
    THEN Append(tree, node)
    ELSE [tree EXCEPT ![Len(tree)].sections = addToTree(@, node)]

\* the html node that replaces a heading node
HeadingComponent(title, local, depth) ==
    MdHtml(<<"<", "Heading", " title=\"">>
              \o ReplaceAll(title, "{", EntityBrace)
              \o <<"\" local=\"">> \o local
              \o <<"\" headingTag=\"h", ToString(depth), "\"/>">>)

\* JSON.stringify of an outline node and, in a list, of its siblings
RECURSIVE JsonOfNodes(_)
JsonOfNodes(tree) ==
    IF tree = <<>> THEN <<>>
    ELSE <<"{\"title\":\"">> \o Head(tree).title
           \o <<"\",\"local\":\"">> \o Head(tree).local
           \o <<"\",\"sections\":[">> \o JsonOfNodes(Head(tree).sections)
           \o <<"],\"depth\":", ToString(Head(tree).depth), "}">>
           \o (IF Tail(tree) = <<>> THEN <<>> ELSE <<",">>)
           \o JsonOfNodes(Tail(tree))

\* JSON.stringify(headings[0]), with ' escaped; "undefined" when there is
\* no heading
MetadataJson(tree) ==
    IF tree = <<>> THEN <<"undefined">>
    ELSE ReplaceAll(JsonOfNodes(<<tree[1]>>), "'", <<"\\", "'">>)

\* the node unshifted to tree.children
MetadataNode(tree) ==
    MdHtml(<<"<", "script", " context=\"module\">export const metadata = '">>
              \o MetadataJson(tree) \o <<"';", "<", "/", "script", ">">>)

(***************************************************************************)
(* mdsvex tree visitor: the body region and its escaping                   *)
(***************************************************************************)
StartComment == <<"<!--HF DOCBUILD BODY START-->">>
StartToken == <<"HF_DOC_BODY_START">>
EndComment == <<"<!--HF DOCBUILD BODY END-->">>
EndToken == <<"HF_DOC_BODY_END">>

\* the second half of isWithinDocBody: the end sentinels
WithinAfterStart(value, start, end) ==
    [hfDocBodyStart |-> start,
     hfDocBodyEnd |-> end \/ value \in {EndComment, EndToken},
     value |-> IF value = EndToken THEN <<>> ELSE value,
     within |-> start /\ ~(end \/ value \in {EndComment, EndToken})]

\* isWithinDocBody(node) with the module-level flags start and end: the
\* flags and the node value it leaves, and the value it returns
isWithinDocBody(value, start, end) ==
    IF value \in {StartComment, StartToken}
    THEN WithinAfterStart(IF value = StartToken THEN <<>> ELSE value, TRUE, FALSE)
    ELSE WithinAfterStart(value, start, end)

\* mutant of EscapeText: the ampersand is escaped too
EscapeTextAmp(value) ==
    ReplaceAll(ReplaceAll(ReplaceAll(value, "&", <<"&", "a", "m", "p", ";">>),
                          "{", EntityBrace), "<", EntityLt)

\* node.value.replaceAll("{", "&#123;") then .replaceAll("<", "&#60;")
EscapeText(value) == ReplaceAll(ReplaceAll(value, "{", EntityBrace), "<", EntityLt)

\* mutant of OnTextWithin: the text is escaped whatever the region
OnTextAlways(r) == [r EXCEPT !.value = EscapeText(r.value)]

\* onText after the call of isWithinDocBody, r being what the call left
OnTextWithin(r) == IF r.within THEN [r EXCEPT !.value = EscapeText(r.value)] ELSE r

onText(value, start, end) == OnTextWithin(isWithinDocBody(value, start, end))

\* tokens \w+ can match in the html values of the model
TagNames == {"foo", "p", "Tip", "Heading", "script"}
htmlTags == {"p", "script"}
\* the components found under ./src/lib when the module is loaded
svelteTags == {"Tip", "Heading"}
validTags == htmlTags \cup svelteTags

\* node.value.match(/<\/?(\w+)/): the tag name of the leftmost match from
\* position i on, "" when there is none
RECURSIVE TagNameFrom(_, _)
TagNameFrom(value, i) ==
    IF i + 1 > Len(value) THEN ""
    ELSE IF value[i] = "<" /\ value[i + 1] \in TagNames THEN value[i + 1]
    ELSE IF /\ value[i] = "<" /\ value[i + 1] = "/" /\ i + 2 <= Len(value)
            /\ value[i + 2] \in TagNames
         THEN value[i + 2]
         ELSE TagNameFrom(value, i + 1)

\* /^<(\w+)[^>]*>.*<\/\1>$/s on the trimmed value
ValidStartEndTag(v) ==
    /\ Len(v) >= 7
    /\ v[1] = "<" /\ v[2] \in TagNames
    /\ IndexFrom(v, {">"}, TRUE, 3) <= Len(v) - 4
    /\ SubSeq(v, Len(v) - 3, Len(v)) = <<"<", "/", v[2], ">">>

\* cheerio: "{" replaced by "&#123;" in every text node, that is outside
\* the tags; inTag tells whether s starts inside a tag
RECURSIVE EscapeBraceInText(_, _)
EscapeBraceInText(s, inTag) ==
    IF s = <<>> THEN <<>>
    ELSE (IF Head(s) = "{" /\ ~inTag THEN EntityBrace ELSE <<Head(s)>>)
            \o EscapeBraceInText(Tail(s),
                                 (inTag \/ Head(s) = "<") /\ Head(s) # ">")

\* onHtml inside the body region, tagName being the match of RE_TAG_NAME
EscapeHtml(value, tagName) ==
    IF tagName = "" THEN value
    ELSE IF tagName \notin validTags THEN ReplaceAll(value, "<", EntityLt)
    ELSE IF tagName \in htmlTags /\ ValidStartEndTag(Trim(value))
         THEN EscapeBraceInText(value, FALSE)
         ELSE value

\* onHtml after the call of isWithinDocBody
OnHtmlWithin(r) ==
    IF r.within
    THEN [r EXCEPT !.value = EscapeHtml(r.value, TagNameFrom(r.value, 1))]
    ELSE r

onHtml(value, start, end) == OnHtmlWithin(isWithinDocBody(value, start, end))

(***************************************************************************)
(* mdsvex tree visitor: transform(tree), one document after the other in   *)
(* one process.  The passes are visit(tree, "heading"), visit(tree,        *)
(* "text") and visit(tree, "html"); no document of the model holds a       *)
(* blockquote.  hfDocBodyStart and hfDocBodyEnd are module-level and are   *)
(* written by isWithinDocBody only.                                        *)
(***************************************************************************)
\* the position of the first node of the given type after position i;
\* Len(ns) + 1 when there is none
RECURSIVE NodeFrom(_, _, _)
NodeFrom(ns, type, i) ==
    IF i + 1 > Len(ns) \/ ns[i + 1].type = type THEN i + 1
    ELSE NodeFrom(ns, type, i + 1)

\* the first of the passes ps that finds a node to visit, "metadata" when
\* none does
RECURSIVE EnterPass(_, _)
EnterPass(ns, ps) ==
    IF ps = <<>> THEN "metadata"
    ELSE IF NodeFrom(ns, Head(ps), 0) <= Len(ns) THEN Head(ps)
    ELSE EnterPass(ns, Tail(ps))

\* the pass goes on when a further node of its type follows position i, and
\* transform moves to the next pass otherwise
Advance(ns, type, i, rest) ==
    IF NodeFrom(ns, type, i) <= Len(ns)
    THEN mdpc' = type /\ cursor' = i
    ELSE mdpc' = EnterPass(ns, rest) /\ cursor' = 0

\* transform(tree) is entered with the next document: let headings = []
BeginTransform ==
    /\ mdpc = "idle"
    /\ Len(outputs) < Len(documents)
    /\ nodes' = documents[Len(outputs) + 1]
    /\ headings' = <<>>
    /\ mdpc' = EnterPass(documents[Len(outputs) + 1], <<"heading", "text", "html">>)
    /\ cursor' = 0
    /\ UNCHANGED <<hfDocBodyStart, hfDocBodyEnd, documents, outputs>>
    /\ UNCHANGED <<pipeVars, harvest, fence, pageVars>>

\* the heading visitor on node i, tl being the title and slug derived
HeadingVisited(i, tl) ==
    /\ headings' = addToTree(headings,
                             OutlineNode(tl.title, tl.local, nodes[i].depth))
    /\ nodes' = [nodes EXCEPT
                   ![i] = HeadingComponent(tl.title, tl.local, nodes[i].depth)]
    /\ Advance(nodes', "heading", i, <<"text", "html">>)

\* visit(tree, "heading", ...): the callback on the next heading
VisitHeading ==
    /\ mdpc = "heading"
    /\ HeadingVisited(NodeFrom(nodes, "heading", cursor),
                      TitleAndLocal(nodes[NodeFrom(nodes, "heading", cursor)].value))
    /\ UNCHANGED <<hfDocBodyStart, hfDocBodyEnd, documents, outputs>>
    /\ UNCHANGED <<pipeVars, harvest, fence, pageVars>>

\* node i leaves onText or onHtml as r says
NodeVisited(i, r, type, rest) ==
    /\ nodes' = [nodes EXCEPT ![i].value = r.value]
    /\ hfDocBodyStart' = r.hfDocBodyStart
    /\ hfDocBodyEnd' = r.hfDocBodyEnd
    /\ Advance(nodes', type, i, rest)

\* visit(tree, "text", onText): onText on the next text node
VisitText ==
    /\ mdpc = "text"
    /\ NodeVisited(NodeFrom(nodes, "text", cursor),
                   onText(nodes[NodeFrom(nodes, "text", cursor)].value,
                          hfDocBodyStart, hfDocBodyEnd),
                   "text", <<"html">>)
    /\ UNCHANGED <<documents, headings, outputs>>
    /\ UNCHANGED <<pipeVars, harvest, fence, pageVars>>

\* visit(tree, "html", onHtml): onHtml on the next html node
VisitHtml ==
    /\ mdpc = "html"
    /\ NodeVisited(NodeFrom(nodes, "html", cursor),
                   onHtml(nodes[NodeFrom(nodes, "html", cursor)].value,
                          hfDocBodyStart, hfDocBodyEnd),
                   "html", <<>>)
    /\ UNCHANGED <<documents, headings, outputs>>
    /\ UNCHANGED <<pipeVars, harvest, fence, pageVars>>

\* tree.children.unshift(metadata node); transform returns
PrependMetadata ==
    /\ mdpc = "metadata"
    /\ outputs' = Append(outputs, <<MetadataNode(headings)>> \o nodes)
    /\ mdpc' = "idle"
    /\ nodes' = <<>>
    /\ headings' = <<>>
    /\ cursor' = 0
    /\ UNCHANGED <<hfDocBodyStart, hfDocBodyEnd, documents>>
    /\ UNCHANGED <<pipeVars, harvest, fence, pageVars>>

\* the visitor is applied once more, to the text nodes it returned last
Reapply ==
    /\ mdpc = "idle"
    /\ Len(outputs) = Len(documents)
    /\ outputs # <<>>
    /\ nodes' = SelectSeq(outputs[Len(outputs)], LAMBDA n : n.type = "text")
    /\ headings' = <<>>
    /\ mdpc' = EnterPass(SelectSeq(outputs[Len(outputs)], LAMBDA n : n.type = "text"),
                         <<"text">>)
    /\ cursor' = 0
    /\ UNCHANGED <<hfDocBodyStart, hfDocBodyEnd, documents, outputs>>
    /\ UNCHANGED <<pipeVars, harvest, fence, pageVars>>

\* the module has just been loaded and is given the documents ds
MdLoaded(ds) ==
    /\ Idle
    /\ TagIdle
    /\ HarvestIdle
    /\ FenceIdle
    /\ PageIdle
    /\ hfDocBodyStart = FALSE
    /\ hfDocBodyEnd = FALSE
    /\ documents \in ds
    /\ nodes = <<>>
    /\ headings = <<>>
    /\ mdpc = "idle"
    /\ cursor = 0
    /\ outputs = <<>>

(***************************************************************************)
(* Documents of headings: the outline and the slugs                        *)
(***************************************************************************)
\* the document of headings of the given depths, the i-th titled "h<i>"
HeadingDoc(depths) ==
    [i \in 1..Len(depths) |-> MdHeading(depths[i], <<"h", ToString(i)>>)]

TitleAlphabet == {"A", " ", "[", "]", "-"}

MySection == <<"M", "y", " ", "S", "e", "c", "t", "i", "o", "n">>

MySectionCustomId ==
    MySection \o <<"[", " ", "c", "u", "s", "t", "o", "m", "-", "i", "d", " ", "]">>

Titles == SeqsUpTo(TitleAlphabet, MaxTitle) \cup {MySection, MySectionCustomId}

OutlineDocs ==
    {<<HeadingDoc(depths)>> : depths \in SeqsUpTo(1..6, MaxHeadings)}
        \cup {<< <<MdHeading(2, t)>> >> : t \in Titles}

InitOutline == MdLoaded(OutlineDocs)

NextOutline ==
    \/ BeginTransform
    \/ VisitHeading
    \/ VisitHtml
    \/ PrependMetadata

SpecOutline == InitOutline /\ [][NextOutline]_vars

(***************************************************************************)
(* Documents of text and html nodes: the body region                       *)
(***************************************************************************)
\* documents transformed by one process
MaxDocs == 2
\* nodes per document
MaxNodes == 2

UnknownTag == <<"<", "foo", ">">>
ParagraphWithBrace == <<"<", "p", ">", "{", "<", "/", "p", ">">>

BodyNodes ==
    {MdText(<<"{">>), MdText(StartToken), MdText(EndToken),
     MdHtml(StartComment), MdHtml(EndComment),
     MdHtml(UnknownTag), MdHtml(ParagraphWithBrace)}

BodyDocs == SeqsUpTo(SeqsUpTo(BodyNodes, MaxNodes), MaxDocs)

InitBody == MdLoaded(BodyDocs)

NextBody ==
    \/ BeginTransform
    \/ VisitText
    \/ VisitHtml
    \/ PrependMetadata

SpecBody == InitBody /\ [][NextBody]_vars

(***************************************************************************)
(* One document of text nodes, the visitor applied to it and then to the   *)
(* text it returned                                                        *)
(***************************************************************************)
\* characters per text node
MaxText == 2
\* text nodes per document
MaxTextNodes == 2

TextAlphabet == {"{", "<", "a", "&"}

EscapeNodes ==
    {MdText(StartToken), MdText(EndToken)}
        \cup {MdText(t) : t \in SeqsUpTo(TextAlphabet, MaxText) \ {<<>>}}

EscapeDocs == {<<d>> : d \in SeqsUpTo(EscapeNodes, MaxTextNodes)}

InitEscape == MdLoaded(EscapeDocs)

NextEscape ==
    \/ BeginTransform
    \/ VisitText
    \/ PrependMetadata
    \/ Reapply

SpecEscape == InitEscape /\ [][NextEscape]_vars

(***************************************************************************)
(* mdsvex highlighter: one fenced code block                               *)
(*                                                                         *)
(* The code is a sequence of text tokens: a line break, a space, a REPL    *)
(* prompt mark (>>> or ...), a split delimiter, or a run of other          *)
(* characters.                                                             *)
(* highlight.js and btoa(encodeURIComponent(.)) are kept as markings of    *)
(* the tokens they are given.                                              *)
(***************************************************************************)
\* tokens per fenced code block
MaxCode == 5

PtTfSplit == Text("===PT-TF-SPLIT===")
StringApiSplit == Text("===STRINGAPI-READINSTRUCTION-SPLIT===")
SplitDelimiters == {PtTfSplit, StringApiSplit}
Prompts == {Text(">>>"), Text("...")}
LineBreak == Text("\n")
CodeSpace == {LineBreak, Text(" ")}

\* hljs.highlight(lang, code, true).value / hljs.highlightAuto(code).value
Highlight(code) == [i \in 1..Len(code) |-> Tok("hljs", code[i].name, "")]

\* btoa(encodeURIComponent(val))
base64(val) == [i \in 1..Len(val) |-> Tok("base64", val[i].name, "")]

\* code.replace(/\\/g, "\\\\").replace(/`/g, "\\`").replace(/}/g, "\\}")
\*     .replace(/\$/g, "\\$"); no token of the model holds a backquote
escape(code) ==
    [i \in 1..Len(code) |->
        CASE code[i].name = "\\" -> Tok(code[i].type, "\\\\", "")
          [] code[i].name = "}" -> Tok(code[i].type, "\\}", "")
          [] code[i].name = "$" -> Tok(code[i].type, "\\$", "")
          [] OTHER -> code[i]]

\* the lines of code.split("\n") from position i on, cur being the part
\* of the current line already read
RECURSIVE SplitLines(_, _, _)
SplitLines(code, i, cur) ==
    IF i > Len(code) THEN <<cur>>
    ELSE IF code[i] = LineBreak THEN <<cur>> \o SplitLines(code, i + 1, <<>>)
    ELSE SplitLines(code, i + 1, Append(cur, code[i]))

\* lines.join("\n")
RECURSIVE JoinLines(_)
JoinLines(lines) ==
    IF lines = <<>> THEN <<>>
    ELSE IF Len(lines) = 1 THEN Head(lines)
    ELSE Head(lines) \o <<LineBreak>> \o JoinLines(Tail(lines))

\* line.match(REGEX_CODE_INPUT), /^(>>>\s|\.\.\.\s)/m, on a line of the split
IsInputLine(line) ==
    Len(line) >= 2 /\ line[1] \in Prompts /\ line[2] \in CodeSpace

\* .filter((line) => line.match(REGEX_CODE_INPUT) || !line)
\* .map((line) => line.replace(REGEX_CODE_INPUT, ""))
InputLines(lines) ==
    [i \in 1..Len(SelectSeq(lines, LAMBDA l : IsInputLine(l) \/ l = <<>>)) |->
        IF IsInputLine(SelectSeq(lines, LAMBDA l : IsInputLine(l) \/ l = <<>>)[i])
        THEN Tail(Tail(SelectSeq(lines, LAMBDA l : IsInputLine(l) \/ l = <<>>)[i]))
        ELSE <<>>]

\* mutant of FilterInput: the empty lines are dropped with the output
FilterInputMarkedOnly(code) ==
    IF \E i \in 1..Len(code) :
          /\ code[i] \in Prompts /\ (i = 1 \/ code[i - 1] = LineBreak)
          /\ i < Len(code) /\ code[i + 1] \in CodeSpace
    THEN JoinLines(InputLines(SelectSeq(SplitLines(code, 1, <<>>),
                                        LAMBDA l : l # <<>>)))
    ELSE code

\* if (code.match(REGEX_CODE_INPUT)) { code = code.split("\n")... }
FilterInput(code) ==
    IF \E i \in 1..Len(code) :
          /\ code[i] \in Prompts /\ (i = 1 \/ code[i - 1] = LineBreak)
          /\ i < Len(code) /\ code[i + 1] \in CodeSpace
    THEN JoinLines(InputLines(SplitLines(code, 1, <<>>)))
    ELSE code

\* the position of the first split delimiter from position i on
NextSplit(code, i) == IndexFrom(code, SplitDelimiters, TRUE, i)

\* the position after the match of REGEX_FRAMEWORKS_SPLIT whose delimiter
\* is at d: the white space that follows belongs to the match
AfterSplit(code, d) == IndexFrom(code, CodeSpace, FALSE, d + 1)

\* the piece of code.split(REGEX_FRAMEWORKS_SPLIT) that starts at position
\* a and ends where the next match starts, or with the code
PieceFrom(code, a) ==
    IF NextSplit(code, a) > Len(code) THEN SubSeq(code, a, Len(code))
    ELSE SubSeq(code, a, LastNotIn(code, CodeSpace, NextSplit(code, a) - 1))

\* mutant of codeGroup2: the last piece of the split
codeGroup2Last(code) ==
    SubSeq(code,
           AfterSplit(code, CHOOSE d \in 1..Len(code) :
                               /\ code[d] \in SplitDelimiters
                               /\ \A e \in d + 1..Len(code) : code[e] \notin SplitDelimiters),
           Len(code))

\* let [codeGroup1, _, codeGroup2] = code.split(REGEX_FRAMEWORKS_SPLIT)
codeGroup1(code) == PieceFrom(code, 1)
codeGroup2(code) == PieceFrom(code, AfterSplit(code, NextSplit(code, 1)))

\* code.match(REGEX_FRAMEWORKS_SPLIT)[0].includes("PT-TF")
isPtTf(code) == code[NextSplit(code, 1)] = PtTfSplit

\* mutant of CodeGroup: the segment is filtered before it is highlighted
CodeGroupFilteredFirst(id, segment) ==
    [id |-> id, code |-> base64(FilterInput(segment)),
     highlighted |-> escape(Highlight(FilterInput(segment)))]

\* one group of the component: id, base64(codeGroup) after the filter,
\* escape(_highlight(codeGroup)) taken before it
CodeGroup(id, segment) ==
    [id |-> id, code |-> base64(FilterInput(segment)),
     highlighted |-> escape(Highlight(segment))]

\* the highlighter after code = renderSvelteChars(code)
HighlightRendered(code, wrap) ==
    IF NextSplit(code, 1) <= Len(code)
    THEN [component |-> "CodeBlockFw",
          group1 |-> CodeGroup(IF isPtTf(code) THEN "pt" ELSE "stringapi",
                               codeGroup1(code)),
          group2 |-> CodeGroup(IF isPtTf(code) THEN "tf" ELSE "readinstruction",
                               codeGroup2(code)),
          wrap |-> wrap]
    ELSE [component |-> "CodeBlock",
          group1 |-> CodeGroup("", code),
          group2 |-> CodeGroup("", <<>>),
          wrap |-> wrap]

highlighter(code, wrap) == HighlightRendered(renderSvelteChars(code), wrap)

CodeAlphabet ==
    {Text("a"), Text(" "), LineBreak, Text(">>>"), PtTfSplit, StringApiSplit}

InitCode ==
    /\ Idle
    /\ TagIdle
    /\ MdIdle
    /\ HarvestIdle
    /\ PageIdle
    /\ fence \in [applied : {FALSE}, code : SeqsUpTo(CodeAlphabet, MaxCode),
                  wrapCodeBlocks : BOOLEAN, result : {<<>>}]

\* mdsvex calls the highlighter on the fenced block
HighlightFence ==
    /\ ~fence.applied
    /\ fence' = [fence EXCEPT !.applied = TRUE,
                   !.result = highlighter(fence.code, fence.wrapCodeBlocks)]
    /\ UNCHANGED <<pipeVars, mdVars, harvest, pageVars>>

NextCode == HighlightFence

SpecCode == InitCode /\ [][NextCode]_vars

(***************************************************************************)
(* mdsvexPreprocess.markup(): formulas                                     *)
(*                                                                         *)
(* A document is a sequence of tokens: a character of text, or a formula   *)
(* in display ($$...$$) or inline (\\(...\\)) notation with the white      *)
(* space before it.  KaTeX is kept as a marking of the formula it is       *)
(* given, flagged katex-error for the formulas it cannot parse.  mdsvex    *)
(* returns the marked text; a marker that ends up inside a code block is   *)
(* encoded with the block and is no marker any more.                       *)
(***************************************************************************)
\* tokens per document
MaxMath == 3

\* formulas KaTeX parses, and formulas it does not
GoodTex == {"x^2"}
BadTex == {"\\frac{"}

Formula(type, tex) == Tok(type, tex, "")
IsFormula(tok) == tok.type \in {"display", "inline"}

\* the counter of markKatex when position i is replaced: the display
\* formulas are replaced first, the inline ones by the second replace
MarkerNumber(c, i) ==
    IF c[i].type = "display"
    THEN Cardinality({j \in 1..i - 1 : c[j].type = "display"})
    ELSE Cardinality({j \in 1..Len(c) : c[j].type = "display"})
            + Cardinality({j \in 1..i - 1 : c[j].type = "inline"})

\* the text KATEXPARSE<n>MARKER
Marker(n) == Tok("marker", ToString(n), "")

\* markKatex(content, markedKatex): the content returned, and markedKatex
\* as the sequence of its entries, entry n + 1 for marker n
markKatex(c) ==
    [content |-> [i \in 1..Len(c) |->
                     IF IsFormula(c[i]) THEN Marker(MarkerNumber(c, i)) ELSE c[i]],
     markedKatex |->
        [n \in 1..Cardinality({j \in 1..Len(c) : IsFormula(c[j])}) |->
            [tex |-> c[CHOOSE i \in 1..Len(c) :
                        IsFormula(c[i]) /\ MarkerNumber(c, i) = n - 1].name,
             displayMode |-> c[CHOOSE i \in 1..Len(c) :
                        IsFormula(c[i]) /\ MarkerNumber(c, i) = n - 1].type
                                = "display"]]]

\* katex.renderToString(tex, {displayMode, throwOnError: false})
renderToString(tex, displayMode) ==
    Tok(IF tex \in BadTex THEN "katex-error" ELSE "katex", tex,
        IF displayMode THEN "display" ELSE "inline")

\* mutant of IncludesKatexError: the flag is not looked at
IncludesNothing(html) == FALSE

\* html.includes(`katex-error`)
IncludesKatexError(html) == html.type = "katex-error"

\* renderKatex from position i of code on: the replace callback on every
\* marker, left to right, until one throws; acc holds the code so far and
\* the results the renderer has returned
RECURSIVE renderKatexFrom(_, _, _, _)
renderKatexMarker(code, mk, i, acc, html) ==
    IF IncludesKatexError(html)
    THEN [thrown |-> TRUE, code |-> <<>>, calls |-> Append(acc.calls, html)]
    ELSE renderKatexFrom(code, mk, i + 1,
                         [code |-> Append(acc.code, html),
                          calls |-> Append(acc.calls, html)])

renderKatexFrom(code, mk, i, acc) ==
    IF i > Len(code)
    THEN [thrown |-> FALSE, code |-> acc.code, calls |-> acc.calls]
    ELSE IF code[i].type = "marker"
    THEN renderKatexMarker(code, mk, i, acc,
             renderToString(mk[CHOOSE n \in 1..Len(mk) : Marker(n - 1) = code[i]].tex,
                            mk[CHOOSE n \in 1..Len(mk) : Marker(n - 1) = code[i]].displayMode))
    ELSE renderKatexFrom(code, mk, i + 1,
                         [code |-> Append(acc.code, code[i]), calls |-> acc.calls])

renderKatex(code, mk) ==
    renderKatexFrom(code, mk, 1, [code |-> <<>>, calls |-> <<>>])

MathAlphabet ==
    {Text("a")} \cup {Formula(t, tex) : t \in {"display", "inline"},
                                        tex \in GoodTex \cup BadTex}

InitMath ==
    /\ Idle
    /\ TagIdle
    /\ MdIdle
    /\ HarvestIdle
    /\ FenceIdle
    /\ RendersIdle
    /\ OptionsIdle
    /\ FieldsIdle
    /\ math \in [pc : {"start"}, isPage : BOOLEAN,
                 content : SeqsUpTo(MathAlphabet, MaxMath),
                 markedKatex : {<<>>}, code : {<<>>}, calls : {<<>>},
                 out : {<<>>}]

\* markup() up to await _mdsvexPreprocess.markup(...); a file that is not
\* a +page.svelte is returned as it is
MarkupMath ==
    /\ math.pc = "start"
    /\ IF math.isPage
       THEN /\ wrapCodeBlocks' = FALSE   \* no token here is the wrap marker
            /\ math' = [math EXCEPT !.pc = "await",
                          !.content = markKatex(math.content).content,
                          !.markedKatex = markKatex(math.content).markedKatex]
       ELSE /\ math' = [math EXCEPT !.pc = "done", !.out = math.content]
            /\ UNCHANGED wrapCodeBlocks
    /\ UNCHANGED <<pipeVars, mdVars, harvest, fence>>
    /\ UNCHANGED <<renders, selectedHfOptions, page, docstring>>

\* _mdsvexPreprocess.markup() resolves: the markers at the positions
\* `encoded` sat in code blocks
MdsvexResolved ==
    /\ math.pc = "await"
    /\ \E encoded \in SUBSET {i \in 1..Len(math.content) :
                                math.content[i].type = "marker"} :
          math' = [math EXCEPT !.pc = "render",
                     !.code = [i \in 1..Len(math.content) |->
                                 IF i \in encoded
                                 THEN Tok("base64", math.content[i].name, "")
                                 ELSE math.content[i]]]
    /\ UNCHANGED <<pipeVars, mdVars, harvest, fence>>
    /\ UNCHANGED <<wrapCodeBlocks, renders, selectedHfOptions, page, docstring>>

\* processed.code = renderKatex(processed.code, markedKatex), and the
\* return of markup(); a throw rejects the promise markup() returned
RenderMath ==
    /\ math.pc = "render"
    /\ math' = [math EXCEPT
                  !.pc = IF renderKatex(math.code, math.markedKatex).thrown
                         THEN "rejected" ELSE "done",
                  !.calls = renderKatex(math.code, math.markedKatex).calls,
                  !.out = renderKatex(math.code, math.markedKatex).code]
    /\ UNCHANGED <<pipeVars, mdVars, harvest, fence>>
    /\ UNCHANGED <<wrapCodeBlocks, renders, selectedHfOptions, page, docstring>>

NextMath ==
    \/ MarkupMath
    \/ MdsvexResolved
    \/ RenderMath

SpecMath == InitMath /\ [][NextMath]_vars

(***************************************************************************)
(* mdsvexPreprocess.markup(): renders in flight and the wrap flag          *)
(*                                                                         *)
(* replaceAsync calls the docstring replacer on every block before it      *)
(* awaits any of them, and each replacer runs up to the await inside the   *)
(* markup() of its first sub-field: the renders are started one after the  *)
(* other and are then in flight together.  The highlighter is called back  *)
(* by mdsvex at some time between the call of _mdsvexPreprocess.markup()   *)
(* and the resolution of its promise.                                      *)
(***************************************************************************)
\* renders in flight
MaxRenders == 3
\* fenced code blocks per rendered document
MaxFences == 2

InitWrap ==
    /\ Idle
    /\ TagIdle
    /\ MdIdle
    /\ HarvestIdle
    /\ FenceIdle
    /\ MathIdle
    /\ OptionsIdle
    /\ FieldsIdle
    /\ wrapCodeBlocks = FALSE
    /\ renders \in SeqsUpTo([hasFlag : BOOLEAN, blocks : 0..MaxFences,
                             pc : {"new"}, emitted : {<<>>}], MaxRenders)

\* markup() of render i up to await _mdsvexPreprocess.markup(...):
\* wrapCodeBlocks = content.includes(WRAP_CODE_BLOCKS_FLAG)
StartRender(i) ==
    /\ renders[i].pc = "new"
    /\ \A j \in 1..i - 1 : renders[j].pc # "new"
    /\ wrapCodeBlocks' = renders[i].hasFlag
    /\ renders' = [renders EXCEPT ![i].pc = "await"]
    /\ UNCHANGED <<pipeVars, mdVars, harvest, fence>>
    /\ UNCHANGED <<math, selectedHfOptions, page, docstring>>

\* the highlighter on the next code block of render i:
\* wrap={${wrapCodeBlocks}}
HighlightBlock(i) ==
    /\ renders[i].pc = "await"
    /\ Len(renders[i].emitted) < renders[i].blocks
    /\ renders' = [renders EXCEPT ![i].emitted = Append(@, wrapCodeBlocks)]
    /\ UNCHANGED <<pipeVars, mdVars, harvest, fence>>
    /\ UNCHANGED <<math, wrapCodeBlocks, selectedHfOptions, page, docstring>>

\* _mdsvexPreprocess.markup() of render i resolves
FinishRender(i) ==
    /\ renders[i].pc = "await"
    /\ Len(renders[i].emitted) = renders[i].blocks
    /\ renders' = [renders EXCEPT ![i].pc = "done"]
    /\ UNCHANGED <<pipeVars, mdVars, harvest, fence>>
    /\ UNCHANGED <<math, wrapCodeBlocks, selectedHfOptions, page, docstring>>

NextWrap ==
    \/ \E i \in 1..Len(renders) : StartRender(i)
    \/ \E i \in 1..Len(renders) : HighlightBlock(i)
    \/ \E i \in 1..Len(renders) : FinishRender(i)

SpecWrap == InitWrap /\ [][NextWrap]_vars

(***************************************************************************)
(* Docstring transform: the optional fields                                *)
(*                                                                         *)
(* The content of a sub-field is a sequence of tokens: a character of      *)
(* text, or a Markdown list of one parameter.  The Markdown renderer and   *)
(* the html parser are kept as markings: a list token renders to a <ul>    *)
(* element with one item, every other token to a paragraph.               *)
(***************************************************************************)
\* tokens of the parameter-description block
MaxParamsDesc == 3
\* numbered sub-blocks of the parameter-groups block
MaxGroups == 2

\* docstringBody.match(generateTagRegex(tag))
Field(body, tag) == StrMatch(body, generateTagRegex(tag, FALSE))

\* content.replace(/}}/g, "}&zwnj;}")
RECURSIVE NeutralizeBraces(_)
NeutralizeBraces(c) ==
    IF Len(c) < 2 THEN c
    ELSE IF c[1] = Text("}") /\ c[2] = Text("}")
    THEN <<Text("}"), Text("&zwnj;"), Text("}")>>
            \o NeutralizeBraces(SubSeq(c, 3, Len(c)))
    ELSE <<c[1]>> \o NeutralizeBraces(Tail(c))

\* the code of (await mdsvexPreprocess.markup({ content, filename }))
Rendered(c) == [i \in 1..Len(c) |-> Tok("html", c[i].name, c[i].type)]

\* htmlparser2.parseDocument(code)
parseDocument(code) ==
    [i \in 1..Len(code) |->
        IF code[i].arg = "list"
        THEN Element("ul", <<<<"<strong>", code[i].name, "</strong>", " -- ", "d">>>>)
        ELSE [name |-> "p", children |-> <<TextNode(<<code[i].name>>)>>]]

Prop(name, value) == [prop |-> name, value |-> value]

\* if (docstringBody.match(REGEX)) { const { code } = await markup(...);
\*   svelteComponent += ` prop={JSON.stringify(code)} ` }
RenderedProp(body, tag, prop) ==
    IF Field(body, tag).start = 0 THEN <<>>
    ELSE <<Prop(prop, Rendered(Field(body, tag).body))>>

\* the paramsdesc branch: }} neutralized, rendered, parsed, harvested
ParamsDescProp(body, anchor) ==
    IF Field(body, "paramsdesc").start = 0 THEN <<>>
    ELSE IF ParametersDescription(anchor,
                parseDocument(Rendered(NeutralizeBraces(
                    Field(body, "paramsdesc").body)))).present
    THEN <<Prop("parametersDescription",
                ParametersDescription(anchor,
                    parseDocument(Rendered(NeutralizeBraces(
                        Field(body, "paramsdesc").body)))).value)>>
    ELSE <<>>

\* the yieldtype branch: ` returnType={...} isYield={true} `
YieldTypeProps(body) ==
    IF Field(body, "yieldtype").start = 0 THEN <<>>
    ELSE <<Prop("returnType", Rendered(Field(body, "yieldtype").body)),
           Prop("isYield", TRUE)>>

\* parseInt of the text; NaN, for which NaN > 0 is false as 0 > 0 is, is
\* given as 0
parseInt(c) ==
    IF c = <<>> THEN 0
    ELSE CASE c[1].name = "1" -> 1
           [] c[1].name = "2" -> 2
           [] c[1].name = "3" -> 3
           [] c[1].name = "4" -> 4
           [] OTHER -> 0

\* the tag names paramsdesc${groupId} and paramsdesc${groupId}title
GroupTag(groupId) ==
    CASE groupId = 1 -> "paramsdesc1" [] groupId = 2 -> "paramsdesc2"
      [] groupId = 3 -> "paramsdesc3" [] OTHER -> "paramsdesc4"

GroupTitleTag(groupId) ==
    CASE groupId = 1 -> "paramsdesc1title" [] groupId = 2 -> "paramsdesc2title"
      [] groupId = 3 -> "paramsdesc3title" [] OTHER -> "paramsdesc4title"

\* docstringBody.match(REGEX_GROUP_TITLE), docstringBody.match(REGEX_GROUP_CONTENT)
GroupTitle(body, groupId) ==
    StrMatch(body, LookaheadRegex(GroupTitleTag(groupId), FALSE))

GroupContent(body, groupId) ==
    StrMatch(body, LookaheadRegex(GroupTag(groupId), FALSE))

\* nParamGroups when the groups are read, 0 when they are not
nParamGroups(body) ==
    IF Field(body, "paramgroups").start = 0 THEN 0
    ELSE parseInt(Field(body, "paramgroups").body)

\* the first groupId whose title or content match is null, at which
\* match(...)[1] throws; nParamGroups + 1 when there is none
FirstNullGroup(body) ==
    Min({g \in 1..nParamGroups(body) :
            GroupTitle(body, g).start = 0 \/ GroupContent(body, g).start = 0}
        \cup {nParamGroups(body) + 1})

\* the list of the group's content: empty when the rendering has no <ul>
GroupRecords(anchor, dom) ==
    IF Lists(dom) = <<>> THEN <<>> ELSE ParamRecords(anchor, Lists(dom)[1])

\* mutant of ParameterGroups: the loop stops one group early
ParameterGroupsButLast(body, anchor, n) ==
    [groupId \in 1..n - 1 |->
        [title |-> GroupTitle(body, groupId).body,
         parametersDescription |->
            GroupRecords(anchor,
                parseDocument(Rendered(GroupContent(body, groupId).body)))]]

\* for (let groupId = 1; groupId <= nParamGroups; groupId++)
\*     parameterGroups.push({ title, parametersDescription: result })
ParameterGroups(body, anchor, n) ==
    [groupId \in 1..n |->
        [title |-> GroupTitle(body, groupId).body,
         parametersDescription |->
            GroupRecords(anchor,
                parseDocument(Rendered(GroupContent(body, groupId).body)))]]

GroupsProp(body, anchor) ==
    IF nParamGroups(body) > 0
    THEN <<Prop("parameterGroups",
                ParameterGroups(body, anchor, nParamGroups(body)))>>
    ELSE <<>>

\* the properties the replacer appends after the mandatory ones, in the
\* order of the code
OptionalProps(body, anchor) ==
    ParamsDescProp(body, anchor)
        \o (IF Field(body, "source").start = 0 THEN <<>>
            ELSE <<Prop("source", Field(body, "source").body)>>)
        \o RenderedProp(body, "retdesc", "returnDescription")
        \o RenderedProp(body, "rettype", "returnType")
        \o RenderedProp(body, "yieldesc", "returnDescription")
        \o YieldTypeProps(body)
        \o RenderedProp(body, "raises", "raiseDescription")
        \o RenderedProp(body, "raisederrors", "raiseType")
        \o (IF \E i \in 1..Len(body) : body[i] = OpenTag("isgetsetdescriptor")
            THEN <<Prop("isGetSetDescriptor", TRUE)>> ELSE <<>>)
        \o GroupsProp(body, anchor)

\* the texts given to mdsvexPreprocess.markup, in the order of the calls
HandedToMarkup(body) ==
    (IF Field(body, "paramsdesc").start = 0 THEN <<>>
     ELSE <<[field |-> "paramsdesc",
             text |-> NeutralizeBraces(Field(body, "paramsdesc").body)]>>)
        \o Concat([k \in 1..6 |->
              IF Field(body, <<"retdesc", "rettype", "yieldesc", "yieldtype",
                               "raises", "raisederrors">>[k]).start = 0
              THEN <<>>
              ELSE <<[field |-> <<"retdesc", "rettype", "yieldesc", "yieldtype",
                                  "raises", "raisederrors">>[k],
                      text |-> Field(body, <<"retdesc", "rettype", "yieldesc",
                                             "yieldtype", "raises",
                                             "raisederrors">>[k]).body]>>])
        \o [g \in 1..FirstNullGroup(body) - 1 |->
              [field |-> GroupTag(g), text |-> GroupContent(body, g).body]]

\* the replacer of docstringPreprocess on the body of one docstring block,
\* the properties in place of the component text
DocstringReplacer(docstringBody) ==
    IF \/ DocstringCallback(docstringBody).outcome = "throw"
       \/ FirstNullGroup(renderSvelteChars(docstringBody))
              <= nParamGroups(renderSvelteChars(docstringBody))
    THEN Thrown
    ELSE Fulfilled(OptionalProps(
             renderSvelteChars(docstringBody),
             [i \in 1..Len(Field(renderSvelteChars(docstringBody), "anchor").body) |->
                 Field(renderSvelteChars(docstringBody), "anchor").body[i].name]))

\* the sub-blocks of a docstring body
Absent == [present |-> FALSE, content |-> <<>>]
Present(c) == [present |-> TRUE, content |-> c]

ParamList == Tok("list", "x", "")

ParamsDescParts ==
    {Absent} \cup {Present(c) : c \in SeqsUpTo({Text("}"), Text("a"), ParamList},
                                              MaxParamsDesc)}

ReturnTags == <<"retdesc", "rettype", "yieldesc", "yieldtype">>

GroupContents == {<<ParamList>>, <<Text("a")>>, <<Text("}"), Text("}")>>}

\* the count declared, and the contents of the numbered sub-blocks
GroupsParts ==
    {Absent} \cup {Present([declared |-> d, groups |-> gs]) :
                      d \in {"0", "x"} \cup {ToString(n) : n \in 1..MaxGroups},
                      gs \in SeqsUpTo(GroupContents, MaxGroups)}

DocstringParts ==
    [paramsdesc : ParamsDescParts, fields : {{}}, paramgroups : {Absent}]
        \cup [paramsdesc : {Absent, Present(<<ParamList>>)},
              fields : SUBSET {"retdesc", "rettype", "yieldesc", "yieldtype"},
              paramgroups : GroupsParts]

\* the docstring body made of the parts
BodyOf(parts) ==
    Pair("name", "f") \o Pair("anchor", "pkg.f") \o Pair("parameters", "[]")
        \o (IF parts.paramsdesc.present
            THEN Block(OpenTag("paramsdesc"), parts.paramsdesc.content, "paramsdesc")
            ELSE <<>>)
        \o Concat([k \in 1..Len(ReturnTags) |->
              IF ReturnTags[k] \in parts.fields
              THEN Pair(ReturnTags[k], ReturnTags[k]) ELSE <<>>])
        \o (IF parts.paramgroups.present
            THEN Pair("paramgroups", parts.paramgroups.content.declared)
                    \o Concat([g \in 1..Len(parts.paramgroups.content.groups) |->
                          Pair(GroupTitleTag(g), ToString(g))
                             \o Block(OpenTag(GroupTag(g)),
                                      parts.paramgroups.content.groups[g],
                                      GroupTag(g))])
            ELSE <<>>)

InitFields ==
    /\ Idle
    /\ TagIdle
    /\ MdIdle
    /\ HarvestIdle
    /\ FenceIdle
    /\ MathIdle
    /\ RendersIdle
    /\ OptionsIdle
    /\ docstring \in {[applied |-> FALSE, parts |-> parts, body |-> BodyOf(parts),
                       handed |-> <<>>, result |-> <<>>] :
                         parts \in DocstringParts}

\* replaceAsync calls the replacer on the docstring block
ReadDocstring ==
    /\ ~docstring.applied
    /\ docstring' = [docstring EXCEPT !.applied = TRUE,
                       !.handed = HandedToMarkup(renderSvelteChars(docstring.body)),
                       !.result = DocstringReplacer(docstring.body)]
    /\ UNCHANGED <<pipeVars, mdVars, harvest, fence>>
    /\ UNCHANGED <<math, wrapCodeBlocks, renders, selectedHfOptions, page>>

SpecFields == InitFields /\ [][ReadDocstring]_vars

(***************************************************************************)
(* HfOptions.svelte: the selection shared through the store                *)
(***************************************************************************)

\* number of HfOptions components of the page
MaxComponents == 2

\* the ids and the option lists of the hfoptions blocks of a page
OptionIds == {"fw", "os"}
OptionLists == {<<"pt", "tf">>, <<"tf", "pt">>, <<"pt", "jax">>}

\* searchParams.get(key) of a key the URL does not hold
null == "null"

\* the values the URL of the page may carry for an id when the page is opened
QueryValues == {null, "tf", "jax"}

\* options.includes(value)
Includes(options, value) == \E k \in 1..Len(options) : options[k] = value

\* a selection made for one id overwrites every id of the store
StoreSetAll(store, id, option) == [j \in DOMAIN store \cup {id} |-> option]

\* $selectedHfOptions[id] = option
StoreSet(store, id, option) ==
    [j \in DOMAIN store \cup {id} |-> IF j = id THEN option ELSE store[j]]

\* searchParams.set(key, value); history.replaceState(...)
updateQueryParamAndReplaceHistory(searchParams, key, value) ==
    [searchParams EXCEPT ![key] = value]

\* new URLSearchParams(currentUrl.search).get(key)
getQueryParamValue(searchParams, key) == searchParams[key]

\* the option a component draws as selected:
\* {$selectedHfOptions[id] === option ? ... } over {#each options as option}
Shown(store, block) ==
    IF block.id \in DOMAIN store /\ Includes(block.options, store[block.id])
    THEN store[block.id]
    ELSE null

\* the operation a component has just run, and the store it ran on
Operation(name, block, store) == [name |-> name, block |-> block, before |-> store]

InitOptions ==
    /\ Idle
    /\ TagIdle
    /\ MdIdle
    /\ HarvestIdle
    /\ FenceIdle
    /\ MathIdle
    /\ RendersIdle
    /\ FieldsIdle
    /\ selectedHfOptions = <<>>
    /\ page \in {[blocks |-> [b \in 1..MaxComponents |->
                                [id |-> ids[b], options |-> lists[b],
                                 pc |-> "declared"]],
                  searchParams |-> query,
                  last |-> Operation("none", 0, <<>>)] :
                    ids \in [1..MaxComponents -> OptionIds],
                    lists \in [1..MaxComponents -> OptionLists],
                    query \in [OptionIds -> QueryValues]}

\* the script of component b runs: $selectedHfOptions[id] = options[0]
Instantiate(b) ==
    /\ page.blocks[b].pc = "declared"
    /\ selectedHfOptions' = StoreSet(selectedHfOptions, page.blocks[b].id,
                                     page.blocks[b].options[1])
    /\ page' = [page EXCEPT !.blocks[b].pc = "instantiated",
                  !.last = Operation("instantiate", b, selectedHfOptions)]
    /\ UNCHANGED <<pipeVars, mdVars, harvest, fence>>
    /\ UNCHANGED <<math, wrapCodeBlocks, renders, docstring>>

\* onMount of component b: the selection the URL carries, when it is an option
Mount(b) ==
    /\ page.blocks[b].pc = "instantiated"
    /\ LET valueFromQueryParams ==
               getQueryParamValue(page.searchParams, page.blocks[b].id)
       IN  selectedHfOptions' =
               IF valueFromQueryParams # null
                  /\ Includes(page.blocks[b].options, valueFromQueryParams)
               THEN StoreSet(selectedHfOptions, page.blocks[b].id,
                             valueFromQueryParams)
               ELSE selectedHfOptions
    /\ page' = [page EXCEPT !.blocks[b].pc = "mounted",
                  !.last = Operation("mount", b, selectedHfOptions)]
    /\ UNCHANGED <<pipeVars, mdVars, harvest, fence>>
    /\ UNCHANGED <<math, wrapCodeBlocks, renders, docstring>>

\* on:click of option k of component b: updateSelectedOption(option)
Click(b, k) ==
    /\ page.blocks[b].pc = "mounted"
    /\ k \in 1..Len(page.blocks[b].options)
    /\ selectedHfOptions' = StoreSet(selectedHfOptions, page.blocks[b].id,
                                     page.blocks[b].options[k])
    /\ page' = [page EXCEPT
                  !.searchParams = updateQueryParamAndReplaceHistory(
                                       page.searchParams, page.blocks[b].id,
                                       page.blocks[b].options[k]),
                  !.last = Operation("click", b, selectedHfOptions)]
    /\ UNCHANGED <<pipeVars, mdVars, harvest, fence>>
    /\ UNCHANGED <<math, wrapCodeBlocks, renders, docstring>>

NextOptions ==
    \/ \E b \in 1..MaxComponents : Instantiate(b)
    \/ \E b \in 1..MaxComponents : Mount(b)
    \/ \E b \in 1..MaxComponents :
           \E k \in 1..Len(page.blocks[b].options) : Click(b, k)

SpecOptions == InitOptions /\ [][NextOptions]_vars

(***************************************************************************)
(* Properties                                                              *)
(***************************************************************************)
\* the matches of the container pattern in the document
DocMatches == Matches(ContainerRegex(kind), content)

\* the text between match k-1 and match k (before the first match for k = 1,
\* after the last for k = Len(ms) + 1)
Gap(text, ms, k) ==
    SubSeq(text,
           IF k = 1 THEN 1 ELSE ms[k - 1].end + 1,
           IF k > Len(ms) THEN Len(text) ELSE ms[k].start - 1)

\* the body has an opening tag <tag> with a closing tag </tag> after it
HasPair(body, tag) ==
    \E i, j \in 1..Len(body) :
        i < j /\ body[i] = OpenTag(tag) /\ body[j] = CloseTag(tag)

\* how many tokens of text satisfy the test
Count(text, Test(_)) == Cardinality({p \in 1..Len(text) : Test(text[p])})

\* C1: when markup() has returned, the i-th match is replaced by the value of
\* the promise the replacer returned for the i-th match, whatever the order
\* in which the settlements arrived: the output is the gaps of the document
\* interleaved with the values in source order.
C1_SourceOrderSplice ==
    pc = "done" =>
        out = Concat([k \in 1..Len(DocMatches) |->
                         Gap(content, DocMatches, k) \o values[k].value])
                \o Gap(content, DocMatches, Len(DocMatches) + 1)

\* C1 witness: two matches with different values, the second promise settled
\* before the first, and markup() has returned
C1_OutOfOrderDone ==
    /\ pc = "done"
    /\ Len(values) >= 2
    /\ arrival[1] = 2
    /\ values[1].value # values[2].value

RECURSIVE Offset(_, _, _)
\* by how much the text from match k on is shifted in the output: the
\* lengths of the replacements before it less the lengths of their matches
Offset(ms, rv, k) ==
    IF k = 1 THEN 0
    ELSE Offset(ms, rv, k - 1) + Len(rv[k - 1])
             - (ms[k - 1].end - ms[k - 1].start + 1)

\* the gap before match k sits in the output at its position shifted by off
GapKept(output, text, ms, k, off) ==
    SubSeq(output,
           (IF k = 1 THEN 1 ELSE ms[k - 1].end + 1) + off,
           (IF k > Len(ms) THEN Len(text) ELSE ms[k].start - 1) + off)
      = Gap(text, ms, k)

FrameKept(output, text, ms, rv) ==
    /\ Len(output) = Len(text) + Offset(ms, rv, Len(ms) + 1)
    /\ \A k \in 1..(Len(ms) + 1) :
          GapKept(output, text, ms, k, Offset(ms, rv, k))

\* C2: when markup() has returned, every token of the document outside the
\* matched spans is in the output, unchanged, at its position shifted by the
\* replacements before it, and the output holds nothing but these gaps and
\* the replacements.
C2_Frame ==
    pc = "done" =>
        FrameKept(out, content, DocMatches,
                  [k \in 1..Len(values) |-> values[k].value])

\* C2 witness: text between and after two replaced matches
C2_TextAroundMatches ==
    /\ pc = "done"
    /\ Len(DocMatches) = 2
    /\ Gap(content, DocMatches, 2) # <<>>
    /\ Gap(content, DocMatches, 3) # <<>>

\* the docstring block with this body lacks a mandatory sub-tag
LacksMandatory(body) ==
    ~ ( /\ HasPair(body, "name")
        /\ HasPair(body, "anchor")
        /\ HasPair(body, "parameters") )

\* C3: in a docstring document with a block that lacks its name, anchor or
\* parameters sub-tag, markup() never returns and no text is produced; once
\* the settlement of that block's promise has arrived, markup() has rejected.
C3_FatalParseError ==
    (kind = "docstring"
       /\ \E k \in 1..Len(DocMatches) : LacksMandatory(DocMatches[k].body))
    => /\ pc \in {"start", "await", "rejected"}
       /\ out = <<>>
       /\ (\E n \in 1..Len(arrival) : LacksMandatory(DocMatches[arrival[n]].body))
             => pc = "rejected"

\* C3 witness: markup() has rejected although another block of the document
\* is well-formed and its promise was fulfilled first
C3_RejectedBesideGoodBlock ==
    /\ kind = "docstring"
    /\ pc = "rejected"
    /\ Len(arrival) = 2
    /\ ~LacksMandatory(DocMatches[arrival[1]].body)
    /\ values[arrival[1]].outcome = "ok"

\* <docstring>A<docstring>B</docstring>
UnclosedOuterText ==
    <<OpenTag("docstring"), Text("A"), OpenTag("docstring"), Text("B"),
      CloseTag("docstring")>>

\* C4: the docstring pattern, in the generated form and in the look-ahead form
\* of kit/preprocess.js, applied to <docstring>A<docstring>B</docstring>
\* produces no match.
C4_NoMatchOnUnclosedOuter ==
    (tagResult.applied /\ tagText = UnclosedOuterText)
    => tagResult.generated = <<>> /\ tagResult.legacy = <<>>

\* the match runs from an opening tag to the nearest following closing tag
\* and its body holds no opening and no closing tag of the name
CleanSpan(text, m, tag) ==
    /\ text[m.start] = OpenTag(tag)
    /\ text[m.end] = CloseTag(tag)
    /\ m.body = SubSeq(text, m.start + 1, m.end - 1)
    /\ \A p \in 1..Len(m.body) :
          m.body[p] # OpenTag(tag) /\ m.body[p] # CloseTag(tag)

\* C5: every match of the generated pattern runs from an opening tag to the
\* nearest following closing tag of the name, and the captured body holds
\* neither a closing tag nor an opening tag of that name.
C5_BodyHoldsNoSameTag ==
    tagResult.applied =>
        \A n \in 1..Len(tagResult.generated) :
            CleanSpan(tagText, tagResult.generated[n], "docstring")

\* the token opens the container tag of kind k
OpensContainer(tok, k) == tok.type \in {"open", "openid"} /\ tok.name = k

\* no opening container tag of the document has a closing tag after it
NoClosedContainer(text, k) ==
    ~ \E i, j \in 1..Len(text) :
          i < j /\ OpensContainer(text[i], k) /\ text[j] = CloseTag(k)

IsTrueFlag(tok) == tok.type = "flag" /\ tok.arg = "true"
IsSlotOpen(tok) == tok.type = "slot" /\ tok.arg = "<"

\* the flags of the component v say, for every entry of the FRAMEWORKS list
\* of kind k, whether the body holds that entry's pair of tags
FlagsMatchBody(k, v, body) ==
    \A i \in 1..Len(FrameworkList(k)) :
        /\ Count(v, LAMBDA tok : tok.type = "flag"
                                   /\ tok.name = FrameworkList(k)[i].framework) = 1
        /\ \E p \in 1..Len(v) :
              v[p] = Flag(FrameworkList(k)[i].framework,
                          HasPair(body, FrameworkList(k)[i].tag))

FrameworkIndex(k, framework) ==
    CHOOSE i \in 1..Len(FrameworkList(k)) : FrameworkList(k)[i].framework = framework

\* C8: in the component emitted for every block of a variant preprocessor,
\* the slots follow the declared order of the FRAMEWORKS list, whatever the
\* order of the variant tags in the block body.
C8_SlotsInDeclaredOrder ==
    kind \in VariantKinds =>
        \A n \in 1..Len(values) :
            \A p, q \in 1..Len(values[n].value) :
                (p < q /\ IsSlotOpen(values[n].value[p])
                       /\ IsSlotOpen(values[n].value[q]))
                => FrameworkIndex(kind, values[n].value[p].name)
                     < FrameworkIndex(kind, values[n].value[q].name)

\* C8 witness: a block whose body gives the three variants in the reverse of
\* the declared order, emitted with three slots
C8_ReversedBody ==
    /\ kind \in VariantKinds
    /\ pc = "done"
    /\ \E n \in 1..Len(values) :
          /\ Count(values[n].value, IsSlotOpen) = 3
          /\ DocMatches[n].body[1] = OpenTag(FrameworkList(kind)[3].tag)

\* C9: the flags emitted for every inferencesnippet and tokenizerslangcontent
\* block say, for each variant, whether that block's own body holds the
\* variant's pair of tags, whatever earlier blocks of the document held.
C9_FlagsPerBlock ==
    kind \in {"inferencesnippet", "tokenizerslangcontent"} =>
        \A n \in 1..Len(values) :
            FlagsMatchBody(kind, values[n].value, DocMatches[n].body)

\* the ids in the options list of the HfOptions component v
EmittedOptions(v) ==
    LET from == CHOOSE p \in 1..Len(v) : v[p] = PropOpen("options")
        to == CHOOSE p \in 1..Len(v) : v[p] = PropClose("options")
    IN  [n \in 1..(to - from - 1) |-> v[from + n].name]

\* the ids of the matches ms, in order
IdsOf(ms) == [n \in 1..Len(ms) |-> ms[n].id]

\* C10: the options list of the HfOptions component emitted for every
\* hfoptions block lists the ids of the block's hfoption sub-tags in source
\* order, one HfOption is emitted per listed option, and every emitted
\* HfOption carries the id of the hfoptions block.
C10_OptionList ==
    kind = "hfoptions" =>
        \A n \in 1..Len(values) :
            /\ EmittedOptions(values[n].value)
                 = IdsOf(Matches(REGEX_HF_OPTION, DocMatches[n].body))
            /\ Count(values[n].value, LAMBDA tok : tok.type = "HfOption")
                 = Len(EmittedOptions(values[n].value))
            /\ \A p \in 1..Len(values[n].value) :
                  values[n].value[p].type = "HfOption"
                  => values[n].value[p].name = DocMatches[n].id

\* C10 witness: a block g1 whose options are b then a, and a block g2, both
\* emitted and spliced
C10_TwoBlocksDone ==
    /\ kind = "hfoptions"
    /\ pc = "done"
    /\ Len(values) = 2
    /\ EmittedOptions(values[1].value) = <<"b", "a">>
    /\ DocMatches[1].id = "g1"
    /\ DocMatches[2].id = "g2"

(***************************************************************************)
(* Properties of the parameter-description harvesting                      *)
(***************************************************************************)
\* the elements of the first <ul> of the parsed block, in order
FirstListItems ==
    SelectSeq(Lists(harvest.dom)[1].children, LAMBDA c : c.type = "tag")

NoUnorderedList == \A i \in 1..Len(harvest.dom) : harvest.dom[i].name # "ul"

\* d is h less the white space around it, less one leading <p> and less one
\* trailing </p> where h, trimmed, starts or ends with one
ItemLessParagraph(h, d) ==
    \E a \in 1..Len(h) + 1, b \in 0..Len(h) :
        /\ d = SubSeq(h, a, b)
        /\ \A i \in 1..a - 2 : h[i] \in Whitespace
        /\ a > 1 => h[a - 1] \in Whitespace \cup {"<p>"}
        /\ (a = 1 \/ h[a - 1] # "<p>") /\ a <= Len(h)
              => h[a] \notin Whitespace \cup {"<p>"}
        /\ \A i \in b + 2..Len(h) : h[i] \in Whitespace
        /\ b < Len(h) => h[b + 1] \in Whitespace \cup {"</p>"}
        /\ (b = Len(h) \/ h[b + 1] # "</p>") /\ b >= 1
              => h[b] \notin Whitespace \cup {"</p>"}

\* C11 (as stated): the item  - **x** (`int`) -- desc  of a docstring with
\* anchor pkg.foo is harvested as {anchor: "pkg.foo.x", name: "x",
\* description: "desc"}, the description being what remains of the item
\* after its bold lead term.
C11_ExampleRecord ==
    harvest.applied /\ harvest.result.present
        /\ harvest.anchor = <<"pkg.foo">>
        /\ FirstListItems # <<>> /\ FirstListItems[1].html = ExampleItem
    => harvest.result.value[1] =
          [anchor |-> <<"pkg.foo", ".", "x">>, name |-> <<"x">>,
           description |-> <<"desc">>]

\* C11 (amended): one record per item of the first unordered list, in
\* order, with name the text of the item's bold lead term, anchor the
\* docstring anchor + "." + name, and description the item's whole inner
\* HTML (lead term included), trimmed, less a leading <p> and less a
\* trailing </p>; the example item keeps its whole HTML as description.
C11_WholeItemDescription ==
    harvest.applied /\ harvest.result.present =>
        /\ Len(harvest.result.value) = Len(FirstListItems)
        /\ \A i \in 1..Len(FirstListItems) :
              /\ \E k \in 1..Len(FirstListItems[i].html) - 2 :
                    /\ FirstListItems[i].html[k] = "<strong>"
                    /\ \A j \in 1..k - 1 : FirstListItems[i].html[j] # "<strong>"
                    /\ FirstListItems[i].html[k + 2] = "</strong>"
                    /\ harvest.result.value[i].name = <<FirstListItems[i].html[k + 1]>>
              /\ harvest.result.value[i].anchor =
                    harvest.anchor \o <<".">> \o harvest.result.value[i].name
              /\ ItemLessParagraph(FirstListItems[i].html,
                                   harvest.result.value[i].description)
              /\ FirstListItems[i].html = ExampleItem
                    => harvest.result.value[i].description = ExampleItem

\* witness of C11: the example item and a loose item harvested from one list
C11_ExampleAndLooseHarvested ==
    /\ harvest.applied /\ harvest.result.present
    /\ harvest.anchor = <<"pkg.foo">>
    /\ Len(harvest.result.value) = 2
    /\ harvest.result.value[1].description = ExampleItem
    /\ harvest.result.value[2].name = <<"y">>
    /\ Head(harvest.result.value[2].description) = "<strong>"

\* C12 (as stated): a parameter-description block whose rendered HTML has no
\* unordered list gives a Docstring component with an empty
\* parametersDescription array.
C12_EmptyArrayWithoutList ==
    harvest.applied /\ NoUnorderedList
    => harvest.result.present /\ harvest.result.value = <<>>

\* C12 (amended): a parameter-description block whose rendered HTML has no
\* unordered list leaves the docstring transform successful and the
\* Docstring component without a parametersDescription property.
C12_NoPropertyWithoutList ==
    harvest.applied /\ NoUnorderedList => ~harvest.result.present

\* witness of C12: a block rendered to a paragraph and an ordered list
C12_OrderedListOnly ==
    /\ harvest.applied
    /\ NoUnorderedList
    /\ \E i \in 1..Len(harvest.dom) : harvest.dom[i].name = "ol"
    /\ \E i \in 1..Len(harvest.dom) : harvest.dom[i].name = "p"

(***************************************************************************)
(* Properties of the outline and of the heading slugs                      *)
(***************************************************************************)
\* the document transform(tree) is working on
CurrentDoc == documents[Len(outputs) + 1]

\* the number of headings of the current document already in the outline
Inserted == IF mdpc = "heading" THEN cursor ELSE Len(CurrentDoc)

\* the current document is one of headings titled h1, h2, ...
InHeadingDoc ==
    /\ mdpc \in {"heading", "html", "metadata"}
    /\ CurrentDoc = HeadingDoc([i \in 1..Len(CurrentDoc) |-> CurrentDoc[i].depth])

OutlineRoot == <<"#root">>

\* the pairs <<title of a node, title of its parent>> of a forest whose
\* roots have the given parent
RECURSIVE ParentPairs(_, _)
ParentPairs(forest, parent) ==
    IF forest = <<>> THEN {}
    ELSE {<<Head(forest).title, parent>>}
            \cup ParentPairs(Head(forest).sections, Head(forest).title)
            \cup ParentPairs(Tail(forest), parent)

\* the last heading before the i-th with a smaller depth; 0 when none
LastShallower(doc, i) ==
    IF \E j \in 1..i - 1 : doc[j].depth < doc[i].depth
    THEN CHOOSE j \in 1..i - 1 :
            /\ doc[j].depth < doc[i].depth
            /\ \A l \in j + 1..i - 1 : doc[l].depth >= doc[i].depth
    ELSE 0

\* C13: after inserting any sequence of headings with addToTree, every node
\* of depth d is a child of the most recently inserted earlier node of
\* depth smaller than d, and is a root exactly when there is no such node.
C13_NestsUnderLastShallower ==
    InHeadingDoc =>
        /\ Cardinality(ParentPairs(headings, OutlineRoot)) = Inserted
        /\ \A i \in 1..Inserted :
              <<CurrentDoc[i].value,
                IF LastShallower(CurrentDoc, i) = 0 THEN OutlineRoot
                ELSE CurrentDoc[LastShallower(CurrentDoc, i)].value>>
                  \in ParentPairs(headings, OutlineRoot)

\* witness of C13: depths 2, 4, 3, 1 inserted; 3 is under 2, not under 4,
\* and 1 is a second root
C13_SiblingAndSecondRoot ==
    /\ InHeadingDoc /\ mdpc = "metadata"
    /\ Len(headings) = 2
    /\ headings[2].depth = 1
    /\ Len(headings[1].sections) = 2
    /\ headings[1].sections[1].depth = 4
    /\ headings[1].sections[2].depth = 3

\* the characters c1 c2 occur next to each other in s
HoldsPair(s, c1, c2) == \E p \in 1..Len(s) - 1 : s[p] = c1 /\ s[p + 1] = c2

\* C14: the metadata record prepended to the tree serializes the whole
\* outline forest: every heading of the document, those of a second or
\* later root included, appears in it.
C14_MetadataHoldsEveryHeading ==
    \A d \in 1..Len(outputs) :
        documents[d] = HeadingDoc([i \in 1..Len(documents[d]) |-> documents[d][i].depth])
        => \A i \in 1..Len(documents[d]) :
              HoldsPair(outputs[d][1].value, "h", ToString(i))

\* the single heading of the current document is in the outline
SlugDerived ==
    /\ mdpc \in {"html", "metadata"}
    /\ Len(CurrentDoc) = 1
    /\ Len(headings) = 1

\* the title getTitleText returns for the single heading
RawTitle == Trim(CurrentDoc[1].value)

\* t ends with a "[ slug ]" suffix with a slug of at least one character,
\* opening at position p
SuffixAt(t, p) ==
    /\ p + 4 <= Len(t)
    /\ t[p] = "[" /\ t[p + 1] = " "
    /\ t[Len(t) - 1] = " " /\ t[Len(t)] = "]"

LettersOf(s) == SelectSeq(s, LAMBDA c : c \in UpperCase \cup LowerCase \cup Digits)

SpaceRuns(t) ==
    Cardinality({i \in 1..Len(t) : t[i] = " " /\ (i = 1 \/ t[i - 1] # " ")})

\* slug is title lowercased, each run of spaces a hyphen, and nothing else
\* than letters, digits and hyphens kept
DerivedSlug(title, slug) ==
    /\ \A i \in 1..Len(slug) : slug[i] \in LowerCase \cup Digits \cup {"-"}
    /\ Len(LettersOf(slug)) = Len(LettersOf(title))
    /\ \A i \in 1..Len(LettersOf(slug)) :
          <<LettersOf(title)[i], LettersOf(slug)[i]>>
              \in {<<"A", "a">>, <<"M", "m">>, <<"S", "s">>}
                     \cup {<<c, c>> : c \in LowerCase \cup Digits}
    /\ Len(slug) - Len(LettersOf(slug)) =
          SpaceRuns(title) + Cardinality({i \in 1..Len(title) : title[i] = "-"})

IsStartSentinel(n) == n.value \in {StartComment, StartToken}
IsEndSentinel(n) == n.value \in {EndComment, EndToken}

\* in document order, a start sentinel precedes node i of doc with no end
\* sentinel in between
InRegion(doc, i) ==
    \E j \in 1..i - 1 :
        /\ IsStartSentinel(doc[j])
        /\ \A l \in j + 1..i - 1 : ~IsEndSentinel(doc[l])

\* node i of the d-th document came out of the transform changed
Changed(d, i) == outputs[d][i + 1].value # documents[d][i].value

\* C16: in one document pass, a text or html node receives the body-region
\* escaping exactly when a start sentinel precedes it in document order
\* with no end sentinel in between, for both spellings of the sentinels and
\* both kinds of node.  Stated of the first document a process transforms.
C16_EscapedIffInRegion ==
    outputs # <<>> =>
        \A i \in 1..Len(documents[1]) :
            ~IsStartSentinel(documents[1][i]) /\ ~IsEndSentinel(documents[1][i])
            => (Changed(1, i) <=> InRegion(documents[1], i))

\* C17: at the start of every document pass the region is inactive (both
\* flags false), whatever the documents before held, so a document without
\* sentinels has no node escaped.
C17_RegionResetPerDocument ==
    /\ mdpc = "idle" /\ Len(outputs) < Len(documents)
          => ~hfDocBodyStart /\ ~hfDocBodyEnd
    /\ \A d \in 1..Len(outputs) :
          (\A i \in 1..Len(documents[d]) :
              ~IsStartSentinel(documents[d][i]) /\ ~IsEndSentinel(documents[d][i]))
          => \A i \in 1..Len(documents[d]) : ~Changed(d, i)

\* C18: the transform of the same input, run twice in one process at any
\* two positions of a sequence of transforms, gives the same output.
C18_SameInputSameOutput ==
    \A d \in 1..Len(outputs), e \in 1..Len(outputs) :
        documents[d] = documents[e] => outputs[d] = outputs[e]

\* text node i of the document was inside the region when the visitor
\* first went over it
EscapedOnce(doc, i) ==
    \E j \in 1..i :
        /\ doc[j].value = StartToken
        /\ \A l \in j + 1..i : doc[l].value # EndToken

\* C19: applying the region-escape visitor again to text it has already
\* escaped changes nothing, whether the text is then inside the region
\* (the escape of "{" and "<" applied twice gives what it gives once) or
\* outside of it.
C19_EscapeIdempotent ==
    Len(outputs) = 2 =>
        \A i \in 1..Len(documents[1]) :
            EscapedOnce(documents[1], i)
            => outputs[2][i + 1].value = outputs[1][i + 1].value

\* witness of C19: "{<" after a start sentinel, escaped by the first
\* application and gone over, inside the region, by the second
C19_EscapedTwice ==
    /\ Len(outputs) = 2
    /\ documents[1] = <<MdText(StartToken), MdText(<<"{", "<">>)>>
    /\ hfDocBodyStart /\ ~hfDocBodyEnd
    /\ outputs[1][3].value = EntityBrace \o EntityLt
    /\ outputs[2][3].value = EntityBrace \o EntityLt

(***************************************************************************)
(* Properties of the code split                                            *)
(***************************************************************************)
NamesOf(tokens) == [i \in 1..Len(tokens) |-> tokens[i].name]

HasSplit == \E i \in 1..Len(fence.code) : fence.code[i] \in SplitDelimiters

FirstSplit ==
    CHOOSE d \in 1..Len(fence.code) :
        /\ fence.code[d] \in SplitDelimiters
        /\ \A e \in 1..d - 1 : fence.code[e] \notin SplitDelimiters

\* the tokens of code from a to b are white space
AllSpace(code, a, b) == \A i \in a..b : code[i] \in CodeSpace

\* seg is the code before position d, less the white space next to d
CodeBefore(code, d, seg) ==
    \E e \in 0..d - 1 :
        /\ seg = NamesOf(SubSeq(code, 1, e))
        /\ AllSpace(code, e + 1, d - 1)
        /\ e > 0 => code[e] \notin CodeSpace

\* seg is the code from after position d up to before position n (a
\* delimiter, or Len(code) + 1), less the white space next to d and, when
\* n is a delimiter, next to n
CodeBetween(code, d, n, seg) ==
    \E a \in d + 1..n, b \in d..n - 1 :
        /\ seg = NamesOf(SubSeq(code, a, b))
        /\ AllSpace(code, d + 1, a - 1)
        /\ a < n => code[a] \notin CodeSpace
        /\ IF n > Len(code) THEN b = n - 1
           ELSE /\ AllSpace(code, b + 1, n - 1)
                /\ b >= a => code[b] \notin CodeSpace
                /\ b >= a - 1

GroupIds ==
    <<fence.result.group1.id, fence.result.group2.id>> =
        IF fence.code[FirstSplit] = PtTfSplit
        THEN <<"pt", "tf">> ELSE <<"stringapi", "readinstruction">>

\* C20 (as stated): a fenced block holding a split delimiter is divided in
\* two segments, group1 all the code before the delimiter and group2 all
\* the code after it, with ids pt/tf for the PT-TF delimiter and
\* stringapi/readinstruction for the STRINGAPI-READINSTRUCTION one.
C20_AllCodeAfterDelimiter ==
    fence.applied /\ HasSplit =>
        /\ fence.result.component = "CodeBlockFw"
        /\ GroupIds
        /\ CodeBefore(fence.code, FirstSplit, NamesOf(fence.result.group1.highlighted))
        /\ CodeBetween(fence.code, FirstSplit, Len(fence.code) + 1,
                       NamesOf(fence.result.group2.highlighted))

\* C20 (amended): a fenced block holding a split delimiter is divided in
\* two segments, group1 all the code before the first delimiter and group2
\* all the code after it up to the next delimiter, or up to the end of the
\* block when it holds one delimiter only (white space next to a delimiter
\* left out); the ids are pt/tf or stringapi/readinstruction by the form
\* of the first delimiter.
C20_SplitAtFirstDelimiter ==
    fence.applied /\ HasSplit =>
        /\ fence.result.component = "CodeBlockFw"
        /\ GroupIds
        /\ CodeBefore(fence.code, FirstSplit, NamesOf(fence.result.group1.highlighted))
        /\ CodeBetween(fence.code, FirstSplit,
                       IndexFrom(fence.code, SplitDelimiters, TRUE, FirstSplit + 1),
                       NamesOf(fence.result.group2.highlighted))

\* witness of C20: two lines around a STRINGAPI-READINSTRUCTION delimiter
C20_StringApiSplitDone ==
    /\ fence.applied
    /\ fence.code = <<Text("a"), LineBreak, StringApiSplit, LineBreak, Text("a")>>
    /\ fence.result.group1.id = "stringapi"
    /\ fence.result.group2.id = "readinstruction"
    /\ NamesOf(fence.result.group1.highlighted) = <<"a">>
    /\ NamesOf(fence.result.group2.highlighted) = <<"a">>

(***************************************************************************)
(* Properties of the REPL-prompt filter                                    *)
(***************************************************************************)
\* the segments of the fenced block: the two groups of a split block, the
\* whole block (and no second segment) otherwise
Segment1 ==
    IF HasSplit THEN codeGroup1(renderSvelteChars(fence.code))
    ELSE renderSvelteChars(fence.code)

Segment2 ==
    IF HasSplit THEN codeGroup2(renderSvelteChars(fence.code)) ELSE <<>>

\* the line begins with a prompt mark and a space
MarkedLine(line) ==
    Len(line) >= 2 /\ line[1] \in Prompts /\ line[2] = Text(" ")

\* a prompt mark followed by white space stands at a line start of seg
MarkAtLineStart(seg) ==
    \E i \in 1..Len(seg) - 1 :
        /\ seg[i] \in Prompts
        /\ seg[i + 1] \in CodeSpace
        /\ i > 1 => seg[i - 1] = LineBreak

\* text is the lines joined, less the lines for which Drop holds, each
\* marked line less its mark and the space
KeptLines(lines, text, Drop(_)) ==
    IF \A k \in 1..Len(lines) : Drop(lines[k]) THEN text = <<>>
    ELSE \E f \in [1..Len(SplitLines(text, 1, <<>>)) -> 1..Len(lines)] :
        /\ \A i, j \in DOMAIN f : i < j => f[i] < f[j]
        /\ \A k \in 1..Len(lines) :
              (\E i \in DOMAIN f : f[i] = k) <=> ~Drop(lines[k])
        /\ \A i \in DOMAIN f :
              SplitLines(text, 1, <<>>)[i] =
                  IF MarkedLine(lines[f[i]])
                  THEN SubSeq(lines[f[i]], 3, Len(lines[f[i]]))
                  ELSE lines[f[i]]

\* the text the copy payload encodes
Decoded(payload) == [i \in 1..Len(payload) |-> Text(payload[i].name)]

\* the payload of seg is seg filtered as the claim states it
FilteredAsStated(seg, payload) ==
    /\ \A i \in 1..Len(payload) : payload[i].type = "base64"
    /\ IF \E k \in 1..Len(SplitLines(seg, 1, <<>>)) :
             MarkedLine(SplitLines(seg, 1, <<>>)[k])
       THEN KeptLines(SplitLines(seg, 1, <<>>),
                      Decoded(payload),
                      LAMBDA l : ~MarkedLine(l))
       ELSE Decoded(payload) = seg

\* the payload of seg is seg with the lines dropped that are neither
\* marked nor empty
FilteredKeepingEmpty(seg, payload) ==
    /\ \A i \in 1..Len(payload) : payload[i].type = "base64"
    /\ IF MarkAtLineStart(seg)
       THEN KeptLines(SplitLines(seg, 1, <<>>),
                      Decoded(payload),
                      LAMBDA l : ~MarkedLine(l) /\ l # <<>>)
       ELSE Decoded(payload) = seg

\* C21 (as stated): for a segment in which a line begins with a prompt
\* marker (">>> " or "... ") the copy payload keeps only the lines that
\* begin with the marker, the marker stripped, and drops every other line;
\* a segment with no such line is kept unchanged; each segment of a split
\* block is filtered by itself.
C21_OnlyMarkedLinesKept ==
    fence.applied =>
        /\ FilteredAsStated(Segment1, fence.result.group1.code)
        /\ FilteredAsStated(Segment2, fence.result.group2.code)

\* C21 (amended): for a segment in which a prompt mark followed by white
\* space stands at a line start, the copy payload keeps the lines that
\* begin with the marker, the marker stripped, and the empty lines, and
\* drops every other line; any other segment is kept unchanged; each
\* segment of a split block is filtered by itself.
C21_MarkedAndEmptyLinesKept ==
    fence.applied =>
        /\ FilteredKeepingEmpty(Segment1, fence.result.group1.code)
        /\ FilteredKeepingEmpty(Segment2, fence.result.group2.code)

\* witness of C21: an output line, an empty line and a prompt line; the
\* payload is the empty line and the stripped prompt line
C21_OutputDroppedEmptyKept ==
    /\ fence.applied
    /\ fence.code = <<Text("a"), LineBreak, LineBreak, Text(">>>"), Text(" ")>>
    /\ Decoded(fence.result.group1.code) = <<LineBreak>>

(***************************************************************************)
(* Properties of the two payloads                                          *)
(***************************************************************************)
\* the group carries the highlighting of seg as it stands and the encoding
\* of seg after the prompt filter, and the two texts differ exactly when
\* seg holds a prompt line
PayloadsOf(seg, group) ==
    /\ \A i \in 1..Len(group.highlighted) : group.highlighted[i].type = "hljs"
    /\ \A i \in 1..Len(group.code) : group.code[i].type = "base64"
    /\ NamesOf(group.highlighted) = NamesOf(seg)
    /\ FilteredKeepingEmpty(seg, group.code)
    /\ NamesOf(group.code) # NamesOf(group.highlighted) <=> MarkAtLineStart(seg)

\* C30: for every code block and each segment of a split block, the
\* highlighted payload is computed from the segment before the prompt
\* filter and the copy payload from the segment after it, so that the two
\* differ exactly when the segment holds a prompt line.
C30_HighlightBeforeFilter ==
    fence.applied =>
        /\ PayloadsOf(Segment1, fence.result.group1)
        /\ PayloadsOf(Segment2, fence.result.group2)

\* witness of C30: a split block whose first segment is a prompt line and
\* whose second segment is not
C30_PromptSegmentBesidePlain ==
    /\ fence.applied
    /\ fence.code = <<Text(">>>"), Text(" "), Text("a"), PtTfSplit, Text("a")>>
    /\ NamesOf(fence.result.group1.highlighted) = <<">>>", " ", "a">>
    /\ NamesOf(fence.result.group1.code) = <<"a">>
    /\ NamesOf(fence.result.group2.highlighted) = <<"a">>
    /\ NamesOf(fence.result.group2.code) = <<"a">>

(***************************************************************************)
(* Properties of the outline forest                                        *)
(***************************************************************************)
\* the titles and depths of a forest in pre-order
RECURSIVE PreOrder(_)
PreOrder(forest) ==
    IF forest = <<>> THEN <<>>
    ELSE <<[title |-> Head(forest).title, depth |-> Head(forest).depth]>>
            \o PreOrder(Head(forest).sections)
            \o PreOrder(Tail(forest))

\* in every sibling list of the forest the depths do not grow, and every
\* child is deeper than its parent
RECURSIVE WellNested(_)
WellNested(forest) ==
    /\ \A k \in 1..Len(forest) - 1 : forest[k].depth >= forest[k + 1].depth
    /\ \A k \in 1..Len(forest) :
          /\ \A c \in 1..Len(forest[k].sections) :
                forest[k].sections[c].depth > forest[k].depth
          /\ WellNested(forest[k].sections)

\* C29: after inserting any sequence of headings with addToTree, every
\* child is deeper than its parent, the depths in every sibling list (the
\* roots included) are non-increasing, and the pre-order traversal of the
\* forest lists the headings in document order, none lost or duplicated.
C29_ForestStructure ==
    InHeadingDoc =>
        /\ WellNested(headings)
        /\ PreOrder(headings) =
              [i \in 1..Inserted |->
                  [title |-> CurrentDoc[i].value, depth |-> CurrentDoc[i].depth]]

\* witness of C29: depths 1, 2, 2, 1 inserted: two roots, two equal
\* siblings under the first
C29_TwoRootsTwoSiblings ==
    /\ InHeadingDoc /\ mdpc = "metadata"
    /\ Len(PreOrder(headings)) = 4
    /\ Len(headings) = 2
    /\ Len(headings[1].sections) = 2
    /\ headings[1].sections[1].depth = 2
    /\ headings[1].sections[2].depth = 2
    /\ headings[2].sections = <<>>

(***************************************************************************)
(* Properties of the two passes of replaceAsync                            *)
(***************************************************************************)
\* the state of FRAMEWORKS in which the replacer is called on match i, the
\* calls on the matches before it made
FrameworksBefore(i) ==
    CollectPass(kind, SubSeq(DocMatches, 1, i - 1),
                [values |-> <<>>,
                 fw |-> IF SharedFrameworks(kind) THEN NewFrameworks(kind)
                        ELSE <<>>]).fw

\* C28: for a text with N matches the replacer is invoked exactly N times,
\* once per match from left to right, all of it before any result is
\* awaited or spliced, and the splice pass consumes exactly the N resolved
\* values: none is left over, none is missing.
C28_CollectThenSplice ==
    /\ pc = "start" =>
          values = <<>> /\ arrival = <<>> /\ resolvedValues = <<>> /\ out = <<>>
    /\ pc \in {"await", "splice", "done", "rejected"} =>
          /\ Len(values) = Len(DocMatches)
          /\ \A i \in 1..Len(values) :
                values[i] = Replacer(kind, DocMatches[i], FrameworksBefore(i)).promise
    /\ pc = "splice" =>
          resolvedValues = [i \in 1..Len(DocMatches) |-> values[i].value]
    /\ pc = "done" =>
          /\ Len(arrival) = Len(DocMatches)
          /\ resolvedValues = <<>>
          /\ \A p \in 1..Len(out) : out[p] # Text("undefined")

\* witness of C28: two matches, two values pushed and resolved, both
\* shifted off by the splice pass
C28_TwoCollectedTwoSpliced ==
    /\ pc = "done"
    /\ Len(DocMatches) = 2
    /\ Len(values) = 2
    /\ Len(arrival) = 2
    /\ resolvedValues = <<>>
    /\ out # content

(***************************************************************************)
(* Properties of the formulas                                              *)
(***************************************************************************)
\* C23: whenever the math renderer returns an error-flagged result for a
\* marked formula of a document, the render of the document fails with an
\* error and returns no output: no error-flagged result is part of a
\* returned text.
C23_MathErrorFatal ==
    math.pc \in {"done", "rejected"} =>
        /\ (\E n \in 1..Len(math.calls) : math.calls[n].type = "katex-error")
              => math.pc = "rejected" /\ math.out = <<>>
        /\ \A p \in 1..Len(math.out) : math.out[p].type # "katex-error"

\* witness of C23: a formula is rendered, the next one is flagged, and the
\* render is rejected
C23_RejectedAfterGoodFormula ==
    /\ math.pc = "rejected"
    /\ Len(math.calls) = 2
    /\ math.calls[1].type = "katex"
    /\ math.calls[2].type = "katex-error"
    /\ math.out = <<>>

HoldsDoubleBrace(text) ==
    \E i \in 1..Len(text) - 1 : text[i] = Text("}") /\ text[i + 1] = Text("}")

\* C24: for the parameter-description block and for each parameter-group
\* block of a docstring, the text handed to the Markdown renderer contains
\* no literal }} sequence, whatever the content (runs of three or more }
\* included).
C24_NoDoubleBraceHanded ==
    \A h \in 1..Len(docstring.handed) :
        docstring.handed[h].field
              \in {"paramsdesc"} \cup {GroupTag(g) : g \in 1..MaxGroups}
           => ~HoldsDoubleBrace(docstring.handed[h].text)

\* the properties of the emitted component
EmittedProps == docstring.result.value

\* a property of this name is emitted / is emitted with the rendering of
\* the sub-block of tag t
Emits(name) ==
    \E k \in 1..Len(EmittedProps) : EmittedProps[k].prop = name

EmitsContentOf(name, t) ==
    \E k \in 1..Len(EmittedProps) :
        /\ EmittedProps[k].prop = name
        /\ [i \in 1..Len(EmittedProps[k].value) |-> EmittedProps[k].value[i].name]
              = <<t>>

\* C25: a yield description or a yield type of a docstring body is emitted
\* in the return slot (returnDescription / returnType) and the component
\* has isYield set; with neither in the body, isYield is not set.
C25_YieldSetsIsYield ==
    docstring.applied /\ docstring.result.outcome = "ok" =>
        /\ "yieldesc" \in docstring.parts.fields =>
              EmitsContentOf("returnDescription", "yieldesc") /\ Emits("isYield")
        /\ "yieldtype" \in docstring.parts.fields =>
              EmitsContentOf("returnType", "yieldtype") /\ Emits("isYield")
        /\ docstring.parts.fields \cap {"yieldesc", "yieldtype"} = {} =>
              ~Emits("isYield")

\* the count the parameter-groups block declares; 0 when there is no block
\* or no number
DeclaredGroups ==
    IF docstring.parts.paramgroups.present
          /\ \E n \in 1..MaxGroups :
                ToString(n) = docstring.parts.paramgroups.content.declared
    THEN CHOOSE n \in 1..MaxGroups :
            ToString(n) = docstring.parts.paramgroups.content.declared
    ELSE 0

\* the sub-blocks numbered 1..DeclaredGroups are all in the body
GroupsComplete ==
    DeclaredGroups > 0 =>
        Len(docstring.parts.paramgroups.content.groups) >= DeclaredGroups

\* entry is the group of title and content sub-blocks number i
GroupEntryOf(entry, i) ==
    /\ entry.title = <<Text(ToString(i))>>
    /\ entry.parametersDescription =
          IF \E k \in 1..Len(docstring.parts.paramgroups.content.groups[i]) :
                docstring.parts.paramgroups.content.groups[i][k] = ParamList
          THEN <<[anchor |-> <<"pkg.f", ".", "x">>,
                  description |-> <<"<strong>", "x", "</strong>", " -- ", "d">>,
                  name |-> <<"x">>]>>
          ELSE <<>>

\* C27: for a docstring whose parameter-groups block declares N > 0 (and
\* holds the sub-blocks 1..N), the emitted parameterGroups list has exactly
\* N entries, the i-th built from the title and content sub-blocks number
\* i, with the records harvested from that content (none without a list);
\* for N = 0 or no parameter-groups block no parameterGroups is emitted.
C27_GroupsInOrder ==
    docstring.applied /\ GroupsComplete =>
        /\ docstring.result.outcome = "ok"
        /\ DeclaredGroups = 0 => ~Emits("parameterGroups")
        /\ DeclaredGroups > 0 =>
              /\ Cardinality({k \in 1..Len(EmittedProps) :
                                EmittedProps[k].prop = "parameterGroups"}) = 1
              /\ \A k \in 1..Len(EmittedProps) :
                    EmittedProps[k].prop = "parameterGroups" =>
                        /\ Len(EmittedProps[k].value) = DeclaredGroups
                        /\ \A i \in 1..DeclaredGroups :
                              GroupEntryOf(EmittedProps[k].value[i], i)

\* witness of C27: two groups declared, the first with a list, the second
\* without one
C27_TwoGroupsEmitted ==
    /\ docstring.applied
    /\ DeclaredGroups = 2
    /\ docstring.parts.paramgroups.content.groups = <<<<ParamList>>, <<Text("a")>>>>
    /\ docstring.result.outcome = "ok"
    /\ Emits("parameterGroups")
    /\ ~Emits("parametersDescription")

(***************************************************************************)
(* Properties of the shared option selection                               *)
(***************************************************************************)

\* the components whose script has run
Instantiated == {b \in 1..MaxComponents : page.blocks[b].pc # "declared"}

\* the options of a component, as a set
OptionSet(b) == {page.blocks[b].options[k] : k \in 1..Len(page.blocks[b].options)}

\* the last operation left the selection of every other id as it was
OtherIdsKept ==
    page.last.name # "none" =>
        \A j \in DOMAIN page.last.before :
            j # page.blocks[page.last.block].id =>
                /\ j \in DOMAIN selectedHfOptions
                /\ selectedHfOptions[j] = page.last.before[j]

\* C26 as stated: after any sequence of mounts and option clicks, all
\* HfOptions blocks of a page that use the same id show the same selected
\* option, and a selection made for one id never changes the selection of a
\* different id.
C26_SameIdSameSelection ==
    page # <<>> =>
        /\ \A a \in Instantiated : \A b \in Instantiated :
               page.blocks[a].id = page.blocks[b].id =>
                   Shown(selectedHfOptions, page.blocks[a])
                       = Shown(selectedHfOptions, page.blocks[b])
        /\ OtherIdsKept

\* C26 as amended: all HfOptions blocks of a page that use the same id and
\* offer the same options show the same selected option, which is the one
\* last selected for that id in any of them; a selection made for one id
\* never changes the selection of a different id.
C26_SameIdSameOptionsSameSelection ==
    page # <<>> =>
        /\ \A a \in Instantiated : \A b \in Instantiated :
               (/\ page.blocks[a].id = page.blocks[b].id
                /\ OptionSet(a) = OptionSet(b)) =>
                   /\ Shown(selectedHfOptions, page.blocks[a])
                          = Shown(selectedHfOptions, page.blocks[b])
                   /\ (page.last.name = "click" /\ page.last.block = a) =>
                          /\ Shown(selectedHfOptions, page.blocks[b]) # null
                          /\ Shown(selectedHfOptions, page.blocks[b])
                                 = page.searchParams[page.blocks[b].id]
        /\ OtherIdsKept

\* a click in the first of two mounted blocks of one id has moved the
\* selection of the second block away from its first option
C26_ClickMovedOtherBlock ==
    /\ page # <<>>
    /\ page.blocks[1].id = page.blocks[2].id
    /\ OptionSet(1) = OptionSet(2)
    /\ page.blocks[1].pc = "mounted"
    /\ page.blocks[2].pc = "mounted"
    /\ page.last.name = "click"
    /\ page.last.block = 1
    /\ Shown(page.last.before, page.blocks[2]) = page.blocks[2].options[1]
    /\ Shown(selectedHfOptions, page.blocks[2]) # page.blocks[2].options[1]

====
